---- MODULE Spec2Model ----
(***************************************************************************)
(* A model of the Model Creator extension (src/src/modelCreator.ts).       *)
(*                                                                         *)
(* Text is modelled character by character: a string is a sequence of      *)
(* one-character strings, a document's content is one such sequence with   *)
(* its line terminators in it, and the regular expressions of the source   *)
(* are operators that scan these sequences the way the regex engine does.  *)
(* Line numbers are 0-based, as in the source.                             *)
(***************************************************************************)
EXTENDS Integers, Sequences, FiniteSets, TLC

VARIABLES
    pc,               \* where the run stands
    content,          \* the text handed to parseExistingModels
    existingModels,   \* the ModelInfo[] parseExistingModels returned
    name,             \* naming run: the name handed to extractBoardModelFromName
    boardModel,       \* the board-model token extracted (<<>> for null)
    customerName,     \* the customer name
    eePromVersion,    \* the EEPROM version entered
    newEepromMacro,   \* the macro generateEepromMacro returned
    fileName,         \* base name of the primary file
    document,         \* the primary document: its lines and its terminator
    boardNamePattern, \* board model of the block under the cursor (<<>> for null)
    referenceModel,   \* the ModelInfo picked as reference
    newModelName,     \* the name entered for the new model
    softwareVersion,  \* the software version entered
    customCodeName,   \* the code name entered
    newModelBlock,    \* the block createModelConfiguration synthesized
    genCodeBat,       \* the content of GenCode.bat, NoFile when there is none
    afterLine,        \* the line handed to findNextPreprocessorLine
    insertionLine,    \* the line a step computed to insert at (-1 for none)
    customH,          \* the document Custom.h, NoDocument when there is none
    systemParaC,      \* the document SystemPara.c, NoDocument when there is none
    motorTypes,       \* the motor types chosen: motor1 and motor2
    binFiles,         \* the names of the .bin files beside the primary file
    genCodeRuns,      \* how many times GenCode.bat was executed
    reported,          \* the outcomes the steps reported to the operator
    referenceFan,     \* fan run: the fan picked as reference
    newFanName,       \* fan run: the name entered for the new fan
    fanHeaders,       \* the header files in FocFans
    customerInterface, \* customerInterface2.c
    fanNameTable      \* focfanName_Table.h

parserVars == <<content, existingModels>>
namingVars == <<name, boardModel, customerName, eePromVersion, newEepromMacro>>
workflowVars == <<fileName, document, boardNamePattern, referenceModel, newModelName,
                  softwareVersion, customCodeName, newModelBlock, genCodeBat>>
syncVars == <<afterLine, insertionLine, customH, systemParaC, motorTypes, binFiles,
              genCodeRuns, reported>>
fanVars == <<referenceFan, newFanName, fanHeaders, customerInterface, fanNameTable>>
vars == <<pc, parserVars, namingVars, workflowVars, syncVars, fanVars>>

(***************************************************************************)
(* Strings                                                                 *)
(***************************************************************************)
LF == <<"\n">>
CRLF == <<"\r", "\n">>

S_if == <<"#","i","f">>
S_elif == <<"#","e","l","i","f">>
S_else == <<"#","e","l","s","e">>
S_endif == <<"#","e","n","d","i","f">>

UpperLetters ==
    {"A","B","C","D","E","F","G","H","I","J","K","L","M",
     "N","O","P","Q","R","S","T","U","V","W","X","Y","Z"}
Digits == {"0","1","2","3","4","5","6","7","8","9"}

\* \s of the regular expressions and the characters String.prototype.trim strips
IsWhitespace(c) == c \in {" ", "\t", "\r", "\n"}

\* [A-Z0-9_]
IsNameChar(c) == c \in UpperLetters \cup Digits \cup {"_"}

\* the first index >= i of s that holds no whitespace (Len(s)+1 if none): \s*
RECURSIVE SkipWhitespace(_, _)
SkipWhitespace(s, i) ==
    IF i <= Len(s) /\ IsWhitespace(s[i]) THEN SkipWhitespace(s, i + 1) ELSE i

\* the last index <= j of s that holds no whitespace (0 if none)
RECURSIVE SkipWhitespaceBack(_, _)
SkipWhitespaceBack(s, j) ==
    IF j >= 1 /\ IsWhitespace(s[j]) THEN SkipWhitespaceBack(s, j - 1) ELSE j

\* the first index >= i of s that holds no [A-Z0-9_] character: [A-Z0-9_]*
RECURSIVE SkipNameChars(_, _)
SkipNameChars(s, i) ==
    IF i <= Len(s) /\ IsNameChar(s[i]) THEN SkipNameChars(s, i + 1) ELSE i

\* undefined, as a cancelled prompt returns it; it and '' are the falsy strings
Undefined == <<"undefined">>
IsFalsy(v) == v = <<>> \/ v = Undefined

\* String.prototype.trim
Trim(s) ==
    LET a == SkipWhitespace(s, 1)
        b == SkipWhitespaceBack(s, Len(s))
    IN  IF a > b THEN <<>> ELSE SubSeq(s, a, b)

\* String.prototype.trimEnd
TrimEnd(s) == SubSeq(s, 1, SkipWhitespaceBack(s, Len(s)))

\* p occurs in s at index i
OccursAt(s, p, i) ==
    /\ i >= 1
    /\ i + Len(p) - 1 <= Len(s)
    /\ \A k \in 1..Len(p) : s[i + k - 1] = p[k]

\* String.prototype.startsWith
StartsWith(s, p) == OccursAt(s, p, 1)

\* content.split(/\r?\n/): the lines of a text; a lone \r ends no line
RECURSIVE SplitFrom(_, _)
SplitFrom(s, start) ==
    LET ends == { k \in start..Len(s) : s[k] = "\n" }
    IN  IF ends = {} THEN << SubSeq(s, start, Len(s)) >>
        ELSE LET k == CHOOSE e \in ends : \A m \in ends : e <= m
                 last == IF k > start /\ s[k - 1] = "\r" THEN k - 2 ELSE k - 1
             IN  << SubSeq(s, start, last) >> \o SplitFrom(s, k + 1)

SplitLines(s) == SplitFrom(s, 1)

\* Array.prototype.join
RECURSIVE Join(_, _)
Join(lines, sep) ==
    IF Len(lines) = 0 THEN <<>>
    ELSE IF Len(lines) = 1 THEN lines[1]
    ELSE lines[1] \o sep \o Join(Tail(lines), sep)

(***************************************************************************)
(* Block Parser: parseExistingModels                                       *)
(***************************************************************************)
\* match[2] of /^#\s*(if|elif)\s+([A-Z0-9_]+)/ on a trimmed line, <<>> when
\* the line does not match
DirectiveName(t) ==
    IF ~StartsWith(t, <<"#">>) THEN <<>>
    ELSE LET a == SkipWhitespace(t, 2)
             b == IF OccursAt(t, <<"i","f">>, a) THEN a + 2
                  ELSE IF OccursAt(t, <<"e","l","i","f">>, a) THEN a + 4
                  ELSE 0
             c == SkipWhitespace(t, b)
             d == SkipNameChars(t, c)
         IN  IF b = 0 \/ c = b \/ d = c THEN <<>> ELSE SubSeq(t, c, d - 1)

\* ['#if', '#elif', '#else', '#endif'].some(d => nextLine.startsWith(d))
EndsBlock(line) ==
    \E d \in {S_if, S_elif, S_else, S_endif} : StartsWith(Trim(line), d)

\* the inner for loop: the first j >= from whose line ends a block, -1 if none
RECURSIVE NextBlockEnd(_, _)
NextBlockEnd(lines, j) ==
    IF j >= Len(lines) THEN -1
    ELSE IF EndsBlock(lines[j + 1]) THEN j
    ELSE NextBlockEnd(lines, j + 1)

\* mutant: trailing blank lines are kept in the block
SkipBlankBackKeepsBlanks(lines, k, startLine) == k

\* while (actualEndLine > startLine && lines[actualEndLine].trim() === '')
RECURSIVE SkipBlankBack(_, _, _)
SkipBlankBack(lines, k, startLine) ==
    IF k > startLine /\ Trim(lines[k + 1]) = <<>>
    THEN SkipBlankBack(lines, k - 1, startLine)
    ELSE k

\* endLine of the block whose header is line i
BlockEndLine(lines, i) ==
    LET j == NextBlockEnd(lines, i + 1)
    IN  IF j # -1 THEN SkipBlankBack(lines, j - 1, i)
        ELSE SkipBlankBack(lines, Len(lines) - 1, i)

\* mutant: the scan resumes on the line after the header (i = endLine is
\* missing), not after the block
RECURSIVE ParseFromNoSkip(_, _)
ParseFromNoSkip(lines, i) ==
    IF i >= Len(lines) THEN <<>>
    ELSE LET modelName == DirectiveName(Trim(lines[i + 1]))
         IN  IF modelName = <<>> THEN ParseFromNoSkip(lines, i + 1)
             ELSE LET endLine == BlockEndLine(lines, i)
                  IN  << [name |-> modelName,
                          configBlock |-> Join(SubSeq(lines, i + 1, endLine + 1), LF),
                          startLine |-> i,
                          endLine |-> endLine] >>
                      \o ParseFromNoSkip(lines, i + 1)

\* the outer for loop, from line i on
RECURSIVE ParseFrom(_, _)
ParseFrom(lines, i) ==
    IF i >= Len(lines) THEN <<>>
    ELSE LET modelName == DirectiveName(Trim(lines[i + 1]))
         IN  IF modelName = <<>> THEN ParseFrom(lines, i + 1)
             ELSE LET endLine == BlockEndLine(lines, i)
                  IN  << [name |-> modelName,
                          configBlock |-> Join(SubSeq(lines, i + 1, endLine + 1), LF),
                          startLine |-> i,
                          endLine |-> endLine] >>
                      \o ParseFrom(lines, endLine + 1)

parseExistingModels(text) == ParseFrom(SplitLines(text), 0)

(***************************************************************************)
(* Naming Extractor: extractBoardModelFromName, generateEepromMacro        *)
(***************************************************************************)
LowerSeq ==
    <<"a","b","c","d","e","f","g","h","i","j","k","l","m",
      "n","o","p","q","r","s","t","u","v","w","x","y","z">>
UpperSeq ==
    <<"A","B","C","D","E","F","G","H","I","J","K","L","M",
      "N","O","P","Q","R","S","T","U","V","W","X","Y","Z">>

ToUpperChar(c) ==
    IF \E k \in 1..Len(LowerSeq) : LowerSeq[k] = c
    THEN UpperSeq[CHOOSE k \in 1..Len(LowerSeq) : LowerSeq[k] = c]
    ELSE c
ToLowerChar(c) ==
    IF \E k \in 1..Len(UpperSeq) : UpperSeq[k] = c
    THEN LowerSeq[CHOOSE k \in 1..Len(UpperSeq) : UpperSeq[k] = c]
    ELSE c

\* String.prototype.toUpperCase, toLowerCase
ToUpperCase(s) == [k \in 1..Len(s) |-> ToUpperChar(s[k])]
ToLowerCase(s) == [k \in 1..Len(s) |-> ToLowerChar(s[k])]

\* String.prototype.endsWith
EndsWith(s, p) == OccursAt(s, p, Len(s) - Len(p) + 1)

\* p (in upper case) occurs in s at index i, letter case ignored: the /i flag
OccursAtIgnoreCase(s, p, i) ==
    /\ i >= 1
    /\ i + Len(p) - 1 <= Len(s)
    /\ \A k \in 1..Len(p) : ToUpperChar(s[i + k - 1]) = p[k]

\* the first index >= i of s that holds no digit: \d*
RECURSIVE SkipDigits(_, _)
SkipDigits(s, i) ==
    IF i <= Len(s) /\ s[i] \in Digits THEN SkipDigits(s, i + 1) ELSE i

S_KFW == <<"K","F","W">>

\* mutant: the general pattern is tried first
patternsGeneralFirst == << "KFW\\d+C_\\d+", "KFW\\d+CAF", "KFW\\d+C_\\d+_(?:AC|DC)" >>

\* the patterns of extractBoardModelFromName, in the order they are tried
patterns == << "KFW\\d+C_\\d+_(?:AC|DC)", "KFW\\d+CAF", "KFW\\d+C_\\d+" >>

\* a match of pattern p in s that starts at index i: the index after its last
\* character, 0 when there is none. Every \d+ is followed by a non-digit or is
\* last, so the greedy match takes the whole run of digits.
MatchEnd(p, s, i) ==
    IF ~OccursAtIgnoreCase(s, S_KFW, i) THEN 0
    ELSE LET a == SkipDigits(s, i + 3)
         IN  IF a = i + 3 THEN 0
             ELSE IF p = "KFW\\d+CAF"
                  THEN IF OccursAtIgnoreCase(s, <<"C","A","F">>, a) THEN a + 3 ELSE 0
             ELSE IF ~OccursAtIgnoreCase(s, <<"C","_">>, a) THEN 0
             ELSE LET b == SkipDigits(s, a + 2)
                  IN  IF b = a + 2 THEN 0
                      ELSE IF p = "KFW\\d+C_\\d+" THEN b
                      ELSE IF \/ OccursAtIgnoreCase(s, <<"_","A","C">>, b)
                              \/ OccursAtIgnoreCase(s, <<"_","D","C">>, b)
                           THEN b + 3
                      ELSE 0

\* name.match(pattern)[1]: the leftmost match, <<>> when there is none
RegexMatch(p, s) ==
    LET starts == { i \in 1..Len(s) : MatchEnd(p, s, i) # 0 }
    IN  IF starts = {} THEN <<>>
        ELSE LET i == CHOOSE x \in starts : \A y \in starts : x <= y
             IN  SubSeq(s, i, MatchEnd(p, s, i) - 1)

\* for (const pattern of patterns): the first pattern that matches decides
RECURSIVE ExtractWith(_, _, _)
ExtractWith(ps, k, n) ==
    IF k > Len(ps) THEN <<>>
    ELSE IF RegexMatch(ps[k], n) # <<>> THEN RegexMatch(ps[k], n)
    ELSE ExtractWith(ps, k + 1, n)

\* the board-model token of a name, <<>> for null
extractBoardModelFromName(n) == ExtractWith(patterns, 1, n)

\* s.replace(/^p/, '') and s.replace(/p$/, '')
StripPrefix(s, p) == IF StartsWith(s, p) THEN SubSeq(s, Len(p) + 1, Len(s)) ELSE s
StripSuffix(s, p) == IF EndsWith(s, p) THEN SubSeq(s, 1, Len(s) - Len(p)) ELSE s

\* mutant: the AC/DC suffix is not removed
simplifyBoardModelKeepsSuffix(b) ==
    StripSuffix(StripPrefix(StripPrefix(ToUpperCase(b), S_KFW), <<"_">>), <<"_">>)

simplifyBoardModel(b) ==
    LET s1 == StripPrefix(ToUpperCase(b), S_KFW)
        s2 == IF EndsWith(s1, <<"_","A","C">>) \/ EndsWith(s1, <<"_","D","C">>)
              THEN SubSeq(s1, 1, Len(s1) - 3) ELSE s1
        s3 == StripPrefix(s2, <<"_">>)
    IN  StripSuffix(s3, <<"_">>)

S_EEPROMDATA_ == <<"E","E","P","R","O","M","D","A","T","A","_">>

\* a variant for comparison: the version is not looked at
generateEepromMacroThrowsUnlessVersion(b, c, v) == IsFalsy(b) \/ IsFalsy(c)

\* if (!boardModel || !customerName || !eePromVersion) throw
generateEepromMacroThrows(b, c, v) == IsFalsy(b) \/ IsFalsy(c) \/ IsFalsy(v)

generateEepromMacro(b, c, v) ==
    S_EEPROMDATA_ \o ToUpperCase(c) \o <<"_">> \o simplifyBoardModel(b)
        \o <<"_">> \o ToUpperCase(v)

(***************************************************************************)
(* Template Synthesizer: createModelConfiguration                          *)
(***************************************************************************)
\* String.prototype.indexOf, 1-based; 0 when p does not occur in s
IndexOf(s, p) ==
    LET at == { i \in 1..Len(s) : OccursAt(s, p, i) }
    IN  IF at = {} THEN 0 ELSE CHOOSE i \in at : \A j \in at : i <= j

\* String.prototype.includes
Includes(s, p) == p = <<>> \/ IndexOf(s, p) # 0

\* s.split(c) for a one-character separator c
RECURSIVE SplitOnFrom(_, _, _)
SplitOnFrom(s, c, start) ==
    LET ends == { k \in start..Len(s) : s[k] = c }
    IN  IF ends = {} THEN << SubSeq(s, start, Len(s)) >>
        ELSE LET k == CHOOSE e \in ends : \A m \in ends : e <= m
             IN  << SubSeq(s, start, k - 1) >> \o SplitOnFrom(s, c, k + 1)

SplitOn(s, c) == SplitOnFrom(s, c, 1)

\* the replacement text String.prototype.replace inserts for the match
\* s[i..j]: $$, $&, $` and $' in the replacement string are patterns (the
\* regular expressions used here have no capture groups, so $1 is literal)
RECURSIVE GetSubstitution(_, _, _, _, _)
GetSubstitution(rep, k, s, i, j) ==
    IF k > Len(rep) THEN <<>>
    ELSE IF rep[k] = "$" /\ k < Len(rep) /\ rep[k + 1] \in {"$", "&", "`", "'"}
         THEN (CASE rep[k + 1] = "$" -> <<"$">>
                 [] rep[k + 1] = "&" -> SubSeq(s, i, j)
                 [] rep[k + 1] = "`" -> SubSeq(s, 1, i - 1)
                 [] rep[k + 1] = "'" -> SubSeq(s, j + 1, Len(s)))
              \o GetSubstitution(rep, k + 2, s, i, j)
    ELSE << rep[k] >> \o GetSubstitution(rep, k + 1, s, i, j)

\* s with the match s[i..j] replaced; m = <<i, j>>, <<0, 0>> for no match
ReplaceMatch(s, m, rep) ==
    IF m[1] = 0 THEN s
    ELSE SubSeq(s, 1, m[1] - 1) \o GetSubstitution(rep, 1, s, m[1], m[2])
         \o SubSeq(s, m[2] + 1, Len(s))

\* s.replace(p, rep) for a string p: the first occurrence
ReplaceString(s, p, rep) ==
    LET i == IndexOf(s, p)
    IN  IF p = <<>> THEN rep \o s
        ELSE ReplaceMatch(s, IF i = 0 THEN <<0, 0>> ELSE <<i, i + Len(p) - 1>>, rep)

\* the match of /^#\s*if/
MatchLeadingIf(s) ==
    IF StartsWith(s, <<"#">>) /\ OccursAt(s, <<"i","f">>, SkipWhitespace(s, 2))
    THEN <<1, SkipWhitespace(s, 2) + 1>>
    ELSE <<0, 0>>

IsHexDigit(c) ==
    c \in Digits \cup {"a","b","c","d","e","f","A","B","C","D","E","F"}

\* the first match of /0x[0-9a-fA-F]{8}/
MatchHexVersion(s) ==
    LET at == { i \in 1..Len(s) :
                  /\ OccursAt(s, <<"0","x">>, i)
                  /\ i + 9 <= Len(s)
                  /\ \A k \in 2..9 : IsHexDigit(s[i + k]) }
    IN  IF at = {} THEN <<0, 0>>
        ELSE LET i == CHOOSE x \in at : \A y \in at : x <= y IN <<i, i + 9>>

\* the first match of /"[^"]*"/
MatchQuoted(s) ==
    LET quotes == { i \in 1..Len(s) : s[i] = "\"" }
    IN  IF Cardinality(quotes) < 2 THEN <<0, 0>>
        ELSE LET i == CHOOSE x \in quotes : \A y \in quotes : x <= y
                 j == CHOOSE x \in quotes \ {i} : \A y \in quotes \ {i} : x <= y
             IN  <<i, j>>

\* the first index >= i of s that holds whitespace: [^\s]*
RECURSIVE SkipNonWhitespace(_, _)
SkipNonWhitespace(s, i) ==
    IF i <= Len(s) /\ ~IsWhitespace(s[i]) THEN SkipNonWhitespace(s, i + 1) ELSE i

\* the first match of /EEPROMDATA_[^\s]+/
MatchEepromToken(s) ==
    LET at == { i \in 1..Len(s) :
                  /\ OccursAt(s, S_EEPROMDATA_, i)
                  /\ SkipNonWhitespace(s, i + 11) > i + 11 }
    IN  IF at = {} THEN <<0, 0>>
        ELSE LET i == CHOOSE x \in at : \A y \in at : x <= y
             IN  <<i, SkipNonWhitespace(s, i + 11) - 1>>

S_define == <<"#","d","e","f","i","n","e">>
S_SOFTWARE_VERSION == <<"S","O","F","T","W","A","R","E","_","V","E","R","S","I","O","N">>
S_CUSTOM_CODE_NAME == <<"C","U","S","T","O","M","_","C","O","D","E","_","N","A","M","E">>

\* /#define\s+SOFTWARE_VERSION/.test(line) and its two siblings: the regex is
\* not anchored, so the define may stand anywhere in the line
TestDefine(line, macroName) ==
    \E i \in 1..Len(line) :
        /\ OccursAt(line, S_define, i)
        /\ SkipWhitespace(line, i + 7) > i + 7
        /\ OccursAt(line, macroName, SkipWhitespace(line, i + 7))

ProcessorMacro(key) ==
    CASE key = "SOFTWARE_VERSION" -> S_SOFTWARE_VERSION
      [] key = "CUSTOM_CODE_NAME" -> S_CUSTOM_CODE_NAME
      [] key = "EEPROMDATA" -> S_EEPROMDATA_

\* lines.findIndex(line => processor.regex.test(line)), 0-based, -1 if none
FindDefineIndex(lines, key) ==
    LET at == { k \in 0..(Len(lines) - 1) : TestDefine(lines[k + 1], ProcessorMacro(key)) }
    IN  IF at = {} THEN -1 ELSE CHOOSE k \in at : \A m \in at : k <= m

\* createLine of the two optional fields (EEPROMDATA has none); the Chinese
\* characters of the comments are written by their code points
createLine(key, val) ==
    IF key = "SOFTWARE_VERSION"
    THEN <<"#","d","e","f","i","n","e"," ","S","O","F","T","W","A","R","E","_","V","E",
           "R","S","I","O","N"," "," "," "," "," "," "," "," "," "," "," "," "," "," ",
           " "," ","(","u","i","n","t","3","2","_","t",")">>
         \o val
         \o <<" "," "," "," "," "," "," "," ","/","/"," ",
              "U+8F6F","U+4EF6","U+7248","U+672C","U+53F7">>
    ELSE <<"#","d","e","f","i","n","e"," ","C","U","S","T","O","M","_","C","O","D","E",
           "_","N","A","M","E"," "," "," "," "," "," "," "," "," "," "," "," "," "," ",
           " "," ","\"">>
         \o val
         \o <<"\""," "," "," "," "," "," "," ","/","/"," ",
              "U+5BA2","U+6237","U+6599","U+53F7","U+540D","U+79F0"," ",
              "U+6700","U+957F","3","0","U+5B57","U+8282">>

\* the in-place rewrite of the value portion of a field's line
ReplaceValue(key, line, val) ==
    CASE key = "SOFTWARE_VERSION" -> ReplaceMatch(line, MatchHexVersion(line), val)
      [] key = "CUSTOM_CODE_NAME" ->
             ReplaceMatch(line, MatchQuoted(line), <<"\"">> \o val \o <<"\"">>)
      [] key = "EEPROMDATA" -> ReplaceMatch(line, MatchEepromToken(line), val)

\* lines.splice(k, 1), k 0-based
Splice(lines, k) == SubSeq(lines, 1, k) \o SubSeq(lines, k + 2, Len(lines))

\* one turn of for (const processor of macroProcessors)
ApplyProcessor(lines, key, val) ==
    LET lineIndex == FindDefineIndex(lines, key)
    IN  IF lineIndex > -1
        THEN IF ~IsFalsy(val)
             THEN [lines EXCEPT ![lineIndex + 1] = ReplaceValue(key, @, val)]
             ELSE IF key # "EEPROMDATA" THEN Splice(lines, lineIndex) ELSE lines
        ELSE IF ~IsFalsy(val) /\ key # "EEPROMDATA"
             THEN Append(lines, createLine(key, val))
             ELSE lines

\* customCodeName ? `${customerName.toUpperCase()}_${customCodeName}` : undefined
fullCustomCodeName(code, customer) ==
    IF IsFalsy(code) THEN Undefined ELSE ToUpperCase(customer) \o <<"_">> \o code

\* lines[0].replace(referenceModel.name, newModelName).replace(/^#\s*if/, '#elif')
RewriteHeader(line, refName, newName) ==
    LET renamed == ReplaceString(line, refName, newName)
    IN  ReplaceMatch(renamed, MatchLeadingIf(renamed), S_elif)

\* the lines of newModelBlock
SynthesizedLines(ref, newName, macro, sw, code, customer) ==
    LET lines == SplitOn(ref.configBlock, "\n")
        l0 == [lines EXCEPT ![1] = RewriteHeader(@, ref.name, newName)]
        l1 == ApplyProcessor(l0, "SOFTWARE_VERSION", sw)
        l2 == ApplyProcessor(l1, "CUSTOM_CODE_NAME", fullCustomCodeName(code, customer))
    IN  ApplyProcessor(l2, "EEPROMDATA", macro)

\* the lines of an edit's text as the editor takes them: \r\n, \r and \n each
\* end a line, and the document keeps its own terminator
RECURSIVE EditLinesFrom(_, _)
EditLinesFrom(s, start) ==
    LET ends == { k \in start..Len(s) : s[k] = "\n" \/ s[k] = "\r" }
    IN  IF ends = {} THEN << SubSeq(s, start, Len(s)) >>
        ELSE LET k == CHOOSE e \in ends : \A m \in ends : e <= m
                 next == IF s[k] = "\r" /\ k < Len(s) /\ s[k + 1] = "\n"
                         THEN k + 2 ELSE k + 1
             IN  << SubSeq(s, start, k - 1) >> \o EditLinesFrom(s, next)

EditLines(s) == EditLinesFrom(s, 1)

\* mutant: the new block replaces the reference block
NewContentWithoutReference(ref, eol, block) == block

\* `${referenceModel.configBlock}${eol}${eol}${newModelBlock}`
NewContent(ref, eol, block) ==
    ref.configBlock \o eol \o eol \o block

\* edit.replace(document.uri, range, newContent) applied: the range runs from
\* the start of line startLine to the end of line endLine
ReplaceLines(doc, startLine, endLine, text) ==
    [doc EXCEPT !.lines = SubSeq(@, 1, startLine) \o EditLines(text)
                          \o SubSeq(@, endLine + 2, Len(@))]

\* document.getText()
GetText(doc) == Join(doc.lines, doc.eol)

(***************************************************************************)
(* Cross-File Synchronizer: updateGenCodeBat                               *)
(***************************************************************************)
\* /^[A-Z]+$/.test(part)
AllUpperLetters(part) ==
    Len(part) >= 1 /\ \A k \in 1..Len(part) : part[k] \in UpperLetters

transformMacroToFilename(macro) ==
    LET baseName == StripPrefix(macro, S_EEPROMDATA_)
        parts == SplitOn(baseName, "_")
        newParts == [k \in 1..Len(parts) |->
                        IF AllUpperLetters(parts[k]) THEN ToLowerCase(parts[k])
                        ELSE parts[k]]
    IN  <<"e","e","p","r","o","m","d","a","t","a","_">> \o Join(newParts, <<"_">>)

\* `bin2c ${eepromName}.bin ${eepromName} eepromdata`
GenCodeCommand(macro) ==
    LET eepromName == transformMacroToFilename(macro)
    IN  <<"b","i","n","2","c"," ">> \o eepromName \o <<".","b","i","n"," ">>
        \o eepromName \o <<" ","e","e","p","r","o","m","d","a","t","a">>

\* the content updateGenCodeBat writes when the command is not in the file
GenCodeNewContent(contentString, macro) ==
    TrimEnd(contentString) \o CRLF \o GenCodeCommand(macro)

(***************************************************************************)
(* Insertion Locator: findNextPreprocessorLine                             *)
(***************************************************************************)
\* ['#elif', '#else', '#endif'].some(d => line.startsWith(d)) on a trimmed line
StartsArmOrEnd(line) ==
    \E d \in {S_elif, S_else, S_endif} : StartsWith(Trim(line), d)

\* the first loop: the first i >= from whose line starts an arm or ends the
\* conditional, -1 if none
RECURSIVE ScanForward(_, _)
ScanForward(lines, from) ==
    IF from >= Len(lines) THEN -1
    ELSE IF StartsArmOrEnd(lines[from + 1]) THEN from
    ELSE ScanForward(lines, from + 1)

\* a variant for comparison: the fallback takes the first #endif line instead of the last
RECURSIVE ScanFirstEndif(_, _)
ScanFirstEndif(lines, from) ==
    LET ends == { i \in 0..from : Trim(lines[i + 1]) = S_endif }
    IN  IF ends = {} THEN -1 ELSE CHOOSE i \in ends : \A j \in ends : i <= j

\* the second loop: the last i <= from whose trimmed line is #endif, -1 if none
RECURSIVE ScanBackEndif(_, _)
ScanBackEndif(lines, from) ==
    IF from < 0 THEN -1
    ELSE IF Trim(lines[from + 1]) = S_endif THEN from
    ELSE ScanBackEndif(lines, from - 1)

\* a variant for comparison: the scan starts on the line itself, not after it
findNextPreprocessorLineInclusive(doc, from) ==
    LET next == ScanForward(doc.lines, IF from < 0 THEN 0 ELSE from)
    IN  IF next # -1 THEN next ELSE ScanBackEndif(doc.lines, Len(doc.lines) - 1)

findNextPreprocessorLine(doc, from) ==
    LET next == ScanForward(doc.lines, from + 1)
    IN  IF next # -1 THEN next ELSE ScanBackEndif(doc.lines, Len(doc.lines) - 1)

\* edit.insert(uri, new Position(line, 0), text) applied: a position past
\* the last line is taken as the end of the document
InsertLines(doc, line, text) ==
    LET pieces == EditLines(text)
        n == Len(pieces)
        L == doc.lines
    IN  [doc EXCEPT !.lines =
            IF line >= Len(L)
            THEN SubSeq(L, 1, Len(L) - 1) \o << L[Len(L)] \o pieces[1] >>
                 \o SubSeq(pieces, 2, n)
            ELSE SubSeq(L, 1, line) \o SubSeq(pieces, 1, n - 1)
                 \o << pieces[n] \o L[line + 1] >> \o SubSeq(L, line + 2, Len(L))]

(***************************************************************************)
(* Alignment Analyzer: getVisualLength, calculateAlignment                 *)
(***************************************************************************)
\* text.replace(/\t/g, '    ').length
getVisualLength(text) ==
    Len(text) + 3 * Cardinality({ k \in 1..Len(text) : text[k] = "\t" })

\* match[1] of /^(\s*)/
LeadingWhitespace(line) == SubSeq(line, 1, SkipWhitespace(line, 1) - 1)

\* the length of match[1] of /^(\s*#define\s+[A-Z0-9_]+\s+)/, 0 for no match
MatchDefinePrefix(line) ==
    LET a == SkipWhitespace(line, 1)
        b == SkipWhitespace(line, a + 7)
        c == SkipNameChars(line, b)
        d == SkipWhitespace(line, c)
    IN  IF OccursAt(line, S_define, a) /\ b > a + 7 /\ c > b /\ d > c
        THEN d - 1 ELSE 0

Spaces(n) == [k \in 1..n |-> " "]
Max2(a, b) == IF a >= b THEN a ELSE b

S_MOTOR1_TYPE ==
    <<"#","d","e","f","i","n","e"," ","M","O","T","O","R","1","_","T","Y","P","E">>
S_MOTOR2_TYPE ==
    <<"#","d","e","f","i","n","e"," ","M","O","T","O","R","2","_","T","Y","P","E">>

\* the widest define prefix of lines from..to, starting from the width w
RECURSIVE WidestPrefix(_, _, _, _)
WidestPrefix(lines, from, to, w) ==
    IF from > to \/ from >= Len(lines) THEN w
    ELSE LET m == MatchDefinePrefix(lines[from + 1])
             col == getVisualLength(SubSeq(lines[from + 1], 1, m))
         IN  WidestPrefix(lines, from + 1, to,
                          IF Trim(lines[from + 1]) # <<>> /\ m > 0 /\ col > w
                          THEN col ELSE w)

\* the first line of from..to that holds a define, -1 if none
RECURSIVE FirstDefine(_, _, _)
FirstDefine(lines, from, to) ==
    IF from > to \/ from >= Len(lines) THEN -1
    ELSE IF Trim(lines[from + 1]) # <<>> /\ MatchDefinePrefix(lines[from + 1]) > 0
         THEN from
    ELSE FirstDefine(lines, from + 1, to)

\* the file that is not there, and the model that was not found
NoFile == <<"ENOENT">>
NoDocument == [lines |-> <<>>, eol |-> <<"ENOENT">>]
NoModel == [name |-> <<>>, configBlock |-> <<>>, startLine |-> -1, endLine |-> -1]
NoFan == [name |-> <<>>, value |-> -1, line |-> -1]

\* no fan is being created
FanIdle ==
    /\ referenceFan = NoFan
    /\ newFanName = <<>>
    /\ fanHeaders = {}
    /\ customerInterface = NoDocument
    /\ fanNameTable = NoDocument

\* updateGenCodeBat on the content of GenCode.bat (NoFile when the file is
\* missing): the content afterwards and what is reported; writeFile may fail,
\* the failure is caught and reported
updateGenCodeBat(contentString, macro, written) ==
    IF contentString = NoFile
    THEN [content |-> contentString, report |-> "GenCodeMissing"]
    ELSE IF Includes(contentString, GenCodeCommand(macro))
    THEN [content |-> contentString, report |-> "GenCodeAlreadyPresent"]
    ELSE IF ~written
    THEN [content |-> contentString, report |-> "GenCodeFailed"]
    ELSE [content |-> GenCodeNewContent(contentString, macro),
          report |-> "GenCodeUpdated"]

(***************************************************************************)
(* createNewModel: the helpers of the orchestration                        *)
(***************************************************************************)
\* path.basename(filePath).startsWith('Config_') && filePath.endsWith('.h')
isConfigFile(file) ==
    StartsWith(file, <<"C","o","n","f","i","g","_">>) /\ EndsWith(file, <<".","h">>)

\* the customer name createNewModel takes from the file name, '' when the
\* base name does not start with Config_ (letter case ignored)
CustomerOfFile(file) ==
    LET baseName == StripSuffix(file, <<".","h">>)
    IN  IF StartsWith(ToLowerCase(baseName), <<"c","o","n","f","i","g","_">>)
        THEN ToUpperCase(SubSeq(baseName, 8, Len(baseName)))
        ELSE <<>>

\* the first '_'-separated part of the first model's name, the whole name
\* when it has no '_'
getCommonModelPrefix(ms) ==
    IF Len(ms) = 0 THEN <<>>
    ELSE LET parts == SplitOn(ms[1].name, "_")
         IN  IF Len(parts) > 1 THEN parts[1] ELSE ms[1].name

\* models.find(m => position.line >= m.startLine && position.line <= m.endLine)
findModelAtPosition(ms, line) ==
    LET at == { k \in 1..Len(ms) : line >= ms[k].startLine /\ line <= ms[k].endLine }
    IN  IF at = {} THEN NoModel ELSE ms[CHOOSE k \in at : \A m \in at : k <= m]

\* the indices of the models selectReferenceModel offers
modelsToShow(ms, pattern) ==
    LET filtered == { k \in 1..Len(ms) :
                        Includes(ToUpperCase(ms[k].name), ToUpperCase(pattern)) }
    IN  IF pattern # <<>> /\ filtered # {} THEN filtered ELSE 1..Len(ms)

\* calculateAlignment: the column the values start at and the indentation
\* of the define lines
calculateAlignment(doc, ref) ==
    LET endLine == findNextPreprocessorLine(doc, ref.startLine) - 1
        first == FirstDefine(doc.lines, ref.startLine + 1, endLine)
        widest == WidestPrefix(doc.lines, ref.startLine + 1, endLine, 0)
        found == LeadingWhitespace(doc.lines[first + 1])
        default == LeadingWhitespace(doc.lines[ref.startLine + 1]) \o Spaces(4)
    IN  IF first = -1
        THEN [valueColumn |-> getVisualLength(default \o S_MOTOR2_TYPE \o <<" ">>),
              innerIndentation |-> default]
        ELSE [valueColumn |->
                  Max2(widest,
                       Max2(getVisualLength(found \o S_MOTOR1_TYPE \o <<" ">>),
                            getVisualLength(found \o S_MOTOR2_TYPE \o <<" ">>))),
              innerIndentation |-> found]

(***************************************************************************)
(* Cross-File Synchronizer: updateCustomH                                  *)
(***************************************************************************)
\* motorTypes.motor1?.trim() is truthy
MotorGiven(motor) == ~IsFalsy(motor) /\ Trim(motor) # <<>>

\* one line of motorLinesFormatted
MotorLine(alignment, macro, motor) ==
    LET definePart == alignment.innerIndentation \o macro
        spacesNeeded == Max2(1, alignment.valueColumn - getVisualLength(definePart))
    IN  definePart \o Spaces(spacesNeeded) \o Trim(motor)

\* modelsInCustomH.find(m => m.name === referenceModel.name)
FindModelNamed(ms, refName) ==
    LET at == { k \in 1..Len(ms) : ms[k].name = refName }
    IN  IF at = {} THEN NoModel ELSE ms[CHOOSE k \in at : \A m \in at : k <= m]

\* a variant for comparison: the line of the fan comes first
CustomHBlockFanFirst(doc, ref, newName, motors) ==
    LET alignment == calculateAlignment(doc, ref)
        header == LeadingWhitespace(doc.lines[ref.startLine + 1])
                  \o S_elif \o <<" ">> \o newName
        m1 == IF MotorGiven(motors.motor1)
              THEN << MotorLine(alignment, S_MOTOR1_TYPE, motors.motor1) >> ELSE <<>>
        m2 == IF MotorGiven(motors.motor2)
              THEN << MotorLine(alignment, S_MOTOR2_TYPE, motors.motor2) >> ELSE <<>>
    IN  Join(<< header >> \o m2 \o m1, doc.eol)

\* newBlockContent of updateCustomH
CustomHBlock(doc, ref, newName, motors) ==
    LET alignment == calculateAlignment(doc, ref)
        header == LeadingWhitespace(doc.lines[ref.startLine + 1])
                  \o S_elif \o <<" ">> \o newName
        m1 == IF MotorGiven(motors.motor1)
              THEN << MotorLine(alignment, S_MOTOR1_TYPE, motors.motor1) >> ELSE <<>>
        m2 == IF MotorGiven(motors.motor2)
              THEN << MotorLine(alignment, S_MOTOR2_TYPE, motors.motor2) >> ELSE <<>>
    IN  Join(<< header >> \o m1 \o m2, doc.eol)

(***************************************************************************)
(* Parameter file: deriveRefEepromMacro, findEepromInsertionLine,          *)
(* updateSystemParaC                                                       *)
(***************************************************************************)
\* configBlock.match(/#define\s+(EEPROMDATA_[^\s]+)/): the captured macro of
\* the first match, Undefined when there is none
MatchEepromDefine(s) ==
    LET at == { i \in 1..Len(s) :
                  /\ OccursAt(s, S_define, i)
                  /\ SkipWhitespace(s, i + 7) > i + 7
                  /\ OccursAt(s, S_EEPROMDATA_, SkipWhitespace(s, i + 7))
                  /\ SkipNonWhitespace(s, SkipWhitespace(s, i + 7) + 11)
                        > SkipWhitespace(s, i + 7) + 11 }
        first == CHOOSE i \in at : \A j \in at : i <= j
        token == SkipWhitespace(s, first + 7)
    IN  IF at = {} THEN Undefined
        ELSE SubSeq(s, token, SkipNonWhitespace(s, token + 11) - 1)

\* deriveRefEepromMacro: null (Undefined) when the name has fewer than two
\* parts or no board model; generateEepromMacro throws on an empty last part
deriveRefEepromMacro(reference, customer) ==
    LET parts == SplitOn(reference.name, "_")
        refEePromVersion == parts[Len(parts)]
        refBoardModel == extractBoardModelFromName(reference.name)
    IN  IF Len(parts) < 2 \/ IsFalsy(refBoardModel)
        THEN [throws |-> FALSE, macro |-> Undefined]
        ELSE IF generateEepromMacroThrows(refBoardModel, customer, refEePromVersion)
        THEN [throws |-> TRUE, macro |-> Undefined]
        ELSE [throws |-> FALSE,
              macro |-> generateEepromMacro(refBoardModel, customer, refEePromVersion)]

\* \w of a regular expression
IsWordChar(c) ==
    \/ c \in Digits \cup {"_"}
    \/ \E k \in 1..Len(UpperSeq) : c = UpperSeq[k] \/ c = LowerSeq[k]

\* new RegExp(`^\\s*#elif\\s+${macro}\\b`).test(line), for a macro that
\* holds no character special to regular expressions
TestElifOf(line, macro) ==
    LET i == SkipWhitespace(line, 1)
        j == SkipWhitespace(line, i + 5)
        k == j + Len(macro)
    IN  /\ OccursAt(line, S_elif, i)
        /\ j > i + 5
        /\ OccursAt(line, macro, j)
        /\ IsWordChar(macro[Len(macro)]) # (k <= Len(line) /\ IsWordChar(line[k]))

\* a variant for comparison: the pattern without its closing \b
TestElifPrefix(line, macro) ==
    LET i == SkipWhitespace(line, 1)
        j == SkipWhitespace(line, i + 5)
    IN  /\ OccursAt(line, S_elif, i)
        /\ j > i + 5
        /\ OccursAt(line, macro, j)

\* the inner loop: the first line from blockEnd on that starts an arm or
\* ends the conditional, else lines.length
RECURSIVE BlockEndFrom(_, _)
BlockEndFrom(lines, blockEnd) ==
    IF blockEnd >= Len(lines) THEN Len(lines)
    ELSE IF StartsArmOrEnd(lines[blockEnd + 1]) THEN blockEnd
    ELSE BlockEndFrom(lines, blockEnd + 1)

\* findEepromInsertionLine for the pattern built from macro
findEepromInsertionLine(doc, macro) ==
    LET lines == SplitLines(GetText(doc))
        at == { i \in 0..(Len(lines) - 1) : TestElifOf(lines[i + 1], macro) }
    IN  IF at = {} THEN -1
        ELSE BlockEndFrom(lines, (CHOOSE i \in at : \A j \in at : i <= j) + 1)

\* lines.findIndex(line => line.trim().startsWith('#else'))
FirstElseLine(doc) ==
    LET lines == SplitLines(GetText(doc))
        at == { i \in 0..(Len(lines) - 1) : StartsWith(Trim(lines[i + 1]), S_else) }
    IN  IF at = {} THEN -1 ELSE CHOOSE i \in at : \A j \in at : i <= j

\* the macro of the reference entry: the one its block defines, else the
\* one derived from its name
RefEepromMacro(reference, customerPrefix) ==
    LET refEepromMatch == MatchEepromDefine(reference.configBlock)
    IN  IF refEepromMatch # Undefined
        THEN [throws |-> FALSE, macro |-> refEepromMatch]
        ELSE deriveRefEepromMacro(reference, customerPrefix)

\* `#elif M${eol}#include "CustomerConfig/CUSTOMER/file.h"`
SystemParaBlock(newMacro, customerPrefix, eol) ==
    S_elif \o <<" ">> \o newMacro \o eol
        \o <<"#","i","n","c","l","u","d","e"," ","\"","C","u","s","t","o","m","e","r",
             "C","o","n","f","i","g","/">>
        \o ToUpperCase(customerPrefix) \o <<"/">>
        \o transformMacroToFilename(newMacro) \o <<".","h","\"">>

\* updateSystemParaC once the macro of the reference entry is known (lines
\* 650-680): the document it leaves, what it reports and the insertion line
\* it chose (-1: none)
PlaceParaBlock(doc, refMacro, newMacro, customerPrefix, applied) ==
    LET found == IF refMacro.macro = Undefined THEN -1
                 ELSE findEepromInsertionLine(doc, refMacro.macro)
        line == IF found # -1 THEN found ELSE FirstElseLine(doc)
        none == [doc |-> doc, report |-> "SystemParaFailed", line |-> -1]
    IN  IF refMacro.throws \/ line = -1 THEN none
        ELSE IF Includes(GetText(doc), newMacro)
        THEN [none EXCEPT !.report = "SystemParaAlreadyPresent", !.line = line]
        ELSE IF ~applied THEN [none EXCEPT !.line = line]
        ELSE [doc |-> InsertLines(doc, line,
                          SystemParaBlock(newMacro, customerPrefix, doc.eol)
                              \o doc.eol),
              report |-> "SystemParaUpdated", line |-> line]

\* what updateSystemParaC does to SystemPara.c (NoDocument when the file is
\* missing); applyEdit may refuse the edit, and every failure is caught and
\* reported
updateSystemParaC(doc, reference, newMacro, customerPrefix, applied) ==
    IF doc = NoDocument
    THEN [doc |-> doc, report |-> "SystemParaMissing", line |-> -1]
    ELSE CHOOSE r \in { PlaceParaBlock(doc, m, newMacro, customerPrefix, applied) :
                            m \in {RefEepromMacro(reference, customerPrefix)} } : TRUE

\* what updateCustomH does to Custom.h: the document it leaves, what it
\* reports, and the reference block and insertion line it worked with
updateCustomH(doc, refName, newName, motors, applied) ==
    LET ms == parseExistingModels(GetText(doc))
        ref == FindModelNamed(ms, refName)
        line == findNextPreprocessorLine(doc, ref.endLine)
        none == [doc |-> doc, report |-> "CustomHSkipped", ref |-> NoModel, line |-> -1]
    IN  IF doc = NoDocument THEN [none EXCEPT !.report = "CustomHMissing"]
        ELSE IF Len(ms) = 0 THEN [none EXCEPT !.report = "CustomHFailed"]
        ELSE IF ~MotorGiven(motors.motor1) /\ ~MotorGiven(motors.motor2) THEN none
        ELSE IF ref = NoModel THEN none
        ELSE IF line = -1 \/ ~applied
             THEN [none EXCEPT !.report = "CustomHFailed", !.ref = ref, !.line = line]
        ELSE [doc |-> InsertLines(doc, line,
                                  CustomHBlock(doc, ref, newName, motors) \o doc.eol),
              report |-> "CustomHUpdated", ref |-> ref, line |-> line]

(***************************************************************************)
(* The parser on its own: every text of up to MaxParseLines lines          *)
(***************************************************************************)
MaxParseLines == 4

ParserLines ==
    { <<"#","i","f"," ","A">>,
      <<"#","e","l","i","f"," ","B">>,
      <<"\t","#","i","f"," ","C">>,
      <<"#"," ","i","f"," ","A">>,
      <<"#","i","f","d","e","f"," ","Z">>,
      S_else,
      S_endif,
      <<"#","d","e","f","i","n","e"," ","X">>,
      <<>>,
      <<" ">> }

ParserDocs ==
    UNION { [1..n -> ParserLines] : n \in 1..MaxParseLines }


ParserIdle ==
    /\ content = <<>>
    /\ existingModels = <<>>
NamingIdle ==
    /\ name = <<>>
    /\ boardModel = <<>>
    /\ customerName = <<>>
    /\ eePromVersion = <<>>
    /\ newEepromMacro = <<>>
WorkflowIdle ==
    /\ fileName = <<>>
    /\ document = [lines |-> <<>>, eol |-> LF]
    /\ boardNamePattern = <<>>
    /\ referenceModel = NoModel
    /\ newModelName = <<>>
    /\ softwareVersion = <<>>
    /\ customCodeName = <<>>
    /\ newModelBlock = <<>>
    /\ genCodeBat = NoFile
SyncIdle ==
    /\ afterLine = -1
    /\ insertionLine = -1
    /\ customH = NoDocument
    /\ systemParaC = NoDocument
    /\ motorTypes = [motor1 |-> Undefined, motor2 |-> Undefined]
    /\ binFiles = {}
    /\ genCodeRuns = 0
    /\ reported = {}

InitParser ==
    /\ FanIdle
    /\ pc = "start"
    /\ \E d \in ParserDocs, eol \in {LF, CRLF} : content = Join(d, eol)
    /\ existingModels = <<>>
    /\ NamingIdle
    /\ WorkflowIdle
    /\ SyncIdle

CallParseExistingModels ==
    /\ pc = "start"
    /\ existingModels' = parseExistingModels(content)
    /\ pc' = "parsed"
    /\ UNCHANGED <<syncVars, content, namingVars, workflowVars>>
    /\ UNCHANGED fanVars

NextParser == CallParseExistingModels

SpecParser == InitParser /\ [][NextParser]_vars

lines0 == SplitLines(content)

\* the lines of all returned blocks, one block after the other
RECURSIVE BlockLinesFrom(_, _)
BlockLinesFrom(ms, k) ==
    IF k > Len(ms) THEN <<>>
    ELSE SplitLines(ms[k].configBlock) \o BlockLinesFrom(ms, k + 1)

\* line k (0-based) is an `#if NAME` or `#elif NAME` header the parser's regex accepts
IsHeader(ls, k) == DirectiveName(Trim(ls[k + 1])) # <<>>
IsIfHeader(ls, k) ==
    /\ IsHeader(ls, k)
    /\ OccursAt(Trim(ls[k + 1]), <<"i","f">>, SkipWhitespace(Trim(ls[k + 1]), 2))
IsElseOrEndif(ls, k) ==
    \/ StartsWith(Trim(ls[k + 1]), S_else)
    \/ StartsWith(Trim(ls[k + 1]), S_endif)
IsBlank(ls, k) == Trim(ls[k + 1]) = <<>>

\* line k lies in the body of the arm opened by header h: no #elif, #else or
\* #endif line closes that arm between h and k
InArmOf(ls, h, k) ==
    /\ h < k
    /\ IsHeader(ls, h)
    /\ \A m \in (h + 1)..(k - 1) :
          ~\E d \in {S_elif, S_else, S_endif} : StartsWith(Trim(ls[m + 1]), d)

NestedIfLines(ls) ==
    { k \in 0..(Len(ls) - 1) :
        IsIfHeader(ls, k) /\ \E h \in 0..(k - 1) : InArmOf(ls, h, k) }

\* a single #if / #elif ... / #else / #endif chain with uppercase guards: an
\* #if header first, #endif last, at most one #else, after every #elif, and
\* no other directive in between
WellFormed(ls) ==
    LET last == Len(ls) - 1
    IN  /\ Len(ls) >= 2
        /\ IsIfHeader(ls, 0)
        /\ StartsWith(Trim(ls[last + 1]), S_endif)
        /\ \A k \in 1..(last - 1) :
              \/ IsHeader(ls, k) /\ ~IsIfHeader(ls, k) /\ EndsBlock(ls[k + 1])
                 /\ \A m \in 1..(k - 1) : ~StartsWith(Trim(ls[m + 1]), S_else)
              \/ StartsWith(Trim(ls[k + 1]), S_else)
                 /\ \A m \in 1..(k - 1) : ~StartsWith(Trim(ls[m + 1]), S_else)
              \/ ~EndsBlock(ls[k + 1]) /\ ~IsHeader(ls, k)

\* a blank line with only blank lines between it and the next directive that
\* ends a block: the lines the parser trims from the end of a block
TrimmedBlank(ls, k) ==
    /\ IsBlank(ls, k)
    /\ \E j \in (k + 1)..(Len(ls) - 1) :
          /\ EndsBlock(ls[j + 1])
          /\ \A m \in k..(j - 1) : IsBlank(ls, m)

\* lines from..to (0-based) of ls without the trimmed blank lines
RECURSIVE WithoutTrimmedBlanks(_, _, _)
WithoutTrimmedBlanks(ls, from, to) ==
    IF from > to THEN <<>>
    ELSE (IF TrimmedBlank(ls, from) THEN <<>> ELSE << ls[from + 1] >>)
         \o WithoutTrimmedBlanks(ls, from + 1, to)

\* the first #else or #endif line
FirstElseOrEndif(ls) ==
    CHOOSE k \in 0..(Len(ls) - 1) :
        IsElseOrEndif(ls, k) /\ \A m \in 0..(k - 1) : ~IsElseOrEndif(ls, m)

\* C1: the blocks parseExistingModels returns are ordered by startLine and do
\* not overlap: startLine <= endLine for every block, and each block ends
\* before the next one starts.
ParserBlocksOrdered ==
    pc = "parsed" =>
        /\ \A k \in 1..Len(existingModels) : existingModels[k].startLine <= existingModels[k].endLine
        /\ \A k \in 1..(Len(existingModels) - 1) : existingModels[k].endLine < existingModels[k + 1].startLine

\* C1 witness: a text parsed into two blocks, the first of more than one line
ParserTwoBlocks ==
    /\ pc = "parsed"
    /\ Len(existingModels) >= 2
    /\ existingModels[1].startLine < existingModels[1].endLine

\* C2: an `#if NAME` line inside the body of an outer #if/#elif arm is not
\* returned as a block of its own; it stays inside the outer arm's block.
NestedIfNotReported ==
    pc = "parsed" =>
        \A k \in NestedIfLines(lines0) :
            /\ \A i \in 1..Len(existingModels) : existingModels[i].startLine # k
            /\ \E i \in 1..Len(existingModels) :
                  existingModels[i].startLine < k /\ k <= existingModels[i].endLine

\* C3 as stated: on a well-formed document the blocks' rawText, concatenated,
\* reproduce all lines of the document but the blank lines trimmed between
\* blocks.
BlocksReproduceDocument ==
    (pc = "parsed" /\ WellFormed(lines0)) =>
        BlockLinesFrom(existingModels, 1) = WithoutTrimmedBlanks(lines0, 0, Len(lines0) - 1)

\* C3 amended: on a well-formed document the blocks' rawText, concatenated,
\* reproduce the lines from the #if header up to, not including, the first
\* #else or #endif line, but the blank lines trimmed from the end of each
\* block; the #else arm and the #endif line are in no block.
BlocksReproduceArms ==
    (pc = "parsed" /\ WellFormed(lines0)) =>
        BlockLinesFrom(existingModels, 1)
            = WithoutTrimmedBlanks(lines0, 0, FirstElseOrEndif(lines0) - 1)

\* C3 witness: a well-formed document of two blocks with a blank line trimmed
\* between them
TwoArmsBlankTrimmed ==
    /\ pc = "parsed"
    /\ WellFormed(lines0)
    /\ Len(existingModels) = 2
    /\ TrimmedBlank(lines0, existingModels[1].endLine + 1)

(***************************************************************************)
(* The naming functions on their own: names of up to MaxSegments segments  *)
(***************************************************************************)
MaxSegments == 4

NameSegments ==
    { <<"P","G","E","L">>,
      <<"K","F","W","3","5","C">>,
      <<"k","f","w","7","c","a","f">>,
      <<"7">>,
      <<"A","C">>,
      <<"d","c">> }

N_PGEL_KFW35C_7_AC_001 ==
    <<"P","G","E","L","_","K","F","W","3","5","C","_","7","_","A","C","_","0","0","1">>
N_PGEL_KFW72C_4_12K_3S_001 ==
    <<"P","G","E","L","_","K","F","W","7","2","C","_","4","_","1","2","K","_","3","S",
      "_","0","0","1">>
N_KFW72C_4 == <<"K","F","W","7","2","C","_","4">>
N_KFW35C_7_AC == <<"K","F","W","3","5","C","_","7","_","A","C">>
\* the general pattern matches before the place where the specific one does
N_KFW35C_7_KFW72C_4_DC ==
    <<"K","F","W","3","5","C","_","7","_","K","F","W","7","2","C","_","4","_","D","C">>

Names ==
    { Join(segs, <<"_">>) :
        segs \in UNION { [1..n -> NameSegments] : n \in 1..MaxSegments } }
    \cup { N_PGEL_KFW35C_7_AC_001, N_PGEL_KFW72C_4_12K_3S_001, N_KFW72C_4,
           N_KFW35C_7_KFW72C_4_DC }

S_PGEL == <<"P","G","E","L">>
CustomerNames == { S_PGEL, <<"P","g">> }
EePromVersions == { <<"1","9","8","1">>, <<"1","a">> }

InitNaming ==
    /\ FanIdle
    /\ pc = "start"
    /\ name \in Names
    /\ customerName = <<>>
    /\ eePromVersion = <<>>
    /\ boardModel = <<>>
    /\ newEepromMacro = <<>>
    /\ ParserIdle
    /\ WorkflowIdle
    /\ SyncIdle

CallExtractBoardModelFromName ==
    /\ pc = "start"
    /\ boardModel' = extractBoardModelFromName(name)
    /\ pc' = "extracted"
    /\ UNCHANGED <<syncVars, name, customerName, eePromVersion, newEepromMacro, parserVars,
                   workflowVars>>
    /\ UNCHANGED fanVars

CallGenerateEepromMacro ==
    /\ pc = "extracted"
    /\ \E c \in CustomerNames, v \in EePromVersions :
          /\ ~generateEepromMacroThrows(boardModel, c, v)
          /\ customerName' = c
          /\ eePromVersion' = v
          /\ newEepromMacro' = generateEepromMacro(boardModel, c, v)
    /\ pc' = "generated"
    /\ UNCHANGED <<syncVars, name, boardModel, parserVars, workflowVars>>
    /\ UNCHANGED fanVars

CallGenerateEepromMacroThrows ==
    /\ pc = "extracted"
    /\ \E c \in CustomerNames \cup {<<>>}, v \in EePromVersions \cup {<<>>} :
          /\ generateEepromMacroThrows(boardModel, c, v)
          /\ customerName' = c
          /\ eePromVersion' = v
    /\ pc' = "failed"
    /\ UNCHANGED <<syncVars, name, boardModel, newEepromMacro, parserVars, workflowVars>>
    /\ UNCHANGED fanVars

NextNaming ==
    \/ CallExtractBoardModelFromName
    \/ CallGenerateEepromMacro
    \/ CallGenerateEepromMacroThrows

SpecNaming == InitNaming /\ [][NextNaming]_vars

\* t is all digits, and not empty
AllDigits(t) == Len(t) >= 1 /\ \A k \in 1..Len(t) : t[k] \in Digits

\* t has the form KFW<digits>C_<digits>, letter case ignored
IsGeneralToken(t) ==
    LET u == ToUpperCase(t)
    IN  /\ StartsWith(u, S_KFW)
        /\ \E a \in 4..Len(u) :
              /\ AllDigits(SubSeq(u, 4, a))
              /\ OccursAt(u, <<"C","_">>, a + 1)
              /\ AllDigits(SubSeq(u, a + 3, Len(u)))

\* t has the form KFW<digits>C_<digits>_AC or KFW<digits>C_<digits>_DC
IsSpecificToken(t) ==
    /\ Len(t) > 3
    /\ IsGeneralToken(SubSeq(t, 1, Len(t) - 3))
    /\ SubSeq(ToUpperCase(t), Len(t) - 2, Len(t)) \in { <<"_","A","C">>, <<"_","D","C">> }

\* t has the form KFW<digits>CAF
IsCafToken(t) ==
    LET u == ToUpperCase(t)
    IN  /\ Len(u) > 6
        /\ StartsWith(u, S_KFW)
        /\ AllDigits(SubSeq(u, 4, Len(u) - 3))
        /\ EndsWith(u, <<"C","A","F">>)

\* the places (start, end) of n where a token of a form stands
TokenStarts(n) == { i \in 1..Len(n) : OccursAtIgnoreCase(n, S_KFW, i) }
SpecificAt(n) ==
    { ij \in TokenStarts(n) \X (1..Len(n)) :
        ij[1] <= ij[2] /\ IsSpecificToken(SubSeq(n, ij[1], ij[2])) }
GeneralAt(n) ==
    { ij \in TokenStarts(n) \X (1..Len(n)) :
        ij[1] <= ij[2] /\ IsGeneralToken(SubSeq(n, ij[1], ij[2])) }
CafAt(n) ==
    { ij \in TokenStarts(n) \X (1..Len(n)) :
        ij[1] <= ij[2] /\ IsCafToken(SubSeq(n, ij[1], ij[2])) }

\* C4: a name that matches the specific pattern (KFW<digits>C_<digits>_AC or
\* _DC) and the general one (KFW<digits>C_<digits>) gives the token of the
\* specific pattern (its leftmost match); PGEL_KFW35C_7_AC_001 gives
\* KFW35C_7_AC; a name that matches no pattern gives none.
SpecificPatternWins ==
    pc = "extracted" =>
        LET specific == SpecificAt(name)
        IN  /\ (specific # {} /\ GeneralAt(name) # {}) =>
                  \E ij \in specific :
                      /\ boardModel = SubSeq(name, ij[1], ij[2])
                      /\ \A other \in specific : ij[1] <= other[1]
            /\ name = N_PGEL_KFW35C_7_AC_001 => boardModel = N_KFW35C_7_AC
            /\ (specific = {} /\ GeneralAt(name) = {} /\ CafAt(name) = {}) =>
                  boardModel = <<>>

\* C4 witness: the token of PGEL_KFW35C_7_AC_001 has been extracted
ExtractedFromAmbiguousName ==
    /\ pc = "extracted"
    /\ name = N_PGEL_KFW35C_7_AC_001
    /\ boardModel = N_KFW35C_7_AC
    /\ GeneralAt(name) # {}

\* the board-model token in upper case without a leading KFW and without a
\* trailing _AC or _DC
SimplifiedToken(t) ==
    LET u == ToUpperCase(t)
        v == IF SubSeq(u, 1, 3) = S_KFW THEN SubSeq(u, 4, Len(u)) ELSE u
        n == Len(v)
    IN  IF n >= 3 /\ SubSeq(v, n - 2, n) \in { <<"_","A","C">>, <<"_","D","C">> }
        THEN SubSeq(v, 1, n - 3)
        ELSE v

\* C5: for a board-model token, a customer name and a version, none empty,
\* generateEepromMacro returns EEPROMDATA_<CUSTOMER>_<SIMPLIFIED>_<VERSION>,
\* customer and version in upper case, SIMPLIFIED the token in upper case
\* without its leading KFW and its trailing _AC or _DC; KFW72C_4, PGEL, 1981
\* give EEPROMDATA_PGEL_72C_4_1981.
EepromMacroFormat ==
    pc = "generated" =>
        /\ newEepromMacro =
              Join(<< <<"E","E","P","R","O","M","D","A","T","A">>,
                      ToUpperCase(customerName),
                      SimplifiedToken(boardModel),
                      ToUpperCase(eePromVersion) >>, <<"_">>)
        /\ (boardModel = N_KFW72C_4 /\ customerName = S_PGEL
                /\ eePromVersion = <<"1","9","8","1">>) =>
              newEepromMacro =
                  <<"E","E","P","R","O","M","D","A","T","A","_","P","G","E","L","_",
                    "7","2","C","_","4","_","1","9","8","1">>

\* C5 witness: a macro generated from a lower-case token with a DC suffix
MacroFromSuffixedToken ==
    /\ pc = "generated"
    /\ boardModel = <<"K","F","W","3","5","C","_","7","_","d","c">>
    /\ customerName = <<"P","g">>

(***************************************************************************)
(* createNewModel, step by step: one action for each await of the handler  *)
(***************************************************************************)
MaxBodyLines == 2

N_REF == N_PGEL_KFW72C_4_12K_3S_001
N_NEW ==
    <<"P","G","E","L","_","K","F","W","7","2","C","_","4","_","1","2","K","_","3","S",
      "_","0","0","2">>
N_FIRST == <<"P","G","E","L","_","K","F","W","7","2","C","_","4","_","0","0","0">>

L_SOFTWARE_VERSION ==
    <<"\t","#","d","e","f","i","n","e"," ","S","O","F","T","W","A","R","E","_","V","E",
      "R","S","I","O","N"," "," ","(","u","i","n","t","3","2","_","t",")","0","x","1",
      "9","0","3","5","B","0","1"," ","/","/"," ","v","1">>
L_SOFTWARE_VERSION_OLD ==
    <<"/","/"," ","#","d","e","f","i","n","e"," ","S","O","F","T","W","A","R","E","_",
      "V","E","R","S","I","O","N"," ","o","l","d">>
L_CUSTOM_CODE_NAME ==
    <<"#","d","e","f","i","n","e"," ","C","U","S","T","O","M","_","C","O","D","E","_",
      "N","A","M","E"," ","\"","P","G","E","L","_","O","L","D","\"","\t","/","/"," ",
      "c","o","d","e">>
L_EEPROMDATA ==
    <<" "," "," "," ","#","d","e","f","i","n","e"," ","E","E","P","R","O","M","D","A",
      "T","A","_","P","G","E","L","_","7","2","C","_","4","_","1","9","8","0"," ","/",
      "/"," ","e","e">>
L_OTHER == <<"#","d","e","f","i","n","e"," ","X"," ","1">>

\* the lines a reference block may hold, in the order a header keeps them
BodyLines ==
    << L_SOFTWARE_VERSION_OLD, L_SOFTWARE_VERSION, L_OTHER, L_CUSTOM_CODE_NAME,
       L_EEPROMDATA >>

\* the lines of BodyLines at the indices of S, from index k on
RECURSIVE BodyOf(_, _)
BodyOf(S, k) ==
    IF k > Len(BodyLines) THEN <<>>
    ELSE (IF k \in S THEN << BodyLines[k] >> ELSE <<>>) \o BodyOf(S, k + 1)

\* the bodies of a reference block: up to MaxBodyLines of these lines
Bodies ==
    { BodyOf(S, 1) : S \in { T \in SUBSET (1..Len(BodyLines)) :
                                Cardinality(T) <= MaxBodyLines } }

\* the header forms of the reference block and the lines before it
IfForms == { <<"#","i","f"," ">>, <<"\t","#","i","f"," ">> }
ElifForms == { <<"#","e","l","i","f"," ">>, <<" "," ","#","e","l","i","f"," ">> }
LinesBefore(form) ==
    IF form \in IfForms THEN <<>> ELSE << <<"#","i","f"," ">> \o N_FIRST, L_OTHER >>

\* the lines after the reference block
LinesAfter ==
    { << S_endif >>,
      << <<>>, <<"#","e","l","i","f"," ">> \o N_PGEL_KFW35C_7_AC_001, L_OTHER,
         S_else, S_endif >> }

PrimaryDocuments ==
    { [lines |-> LinesBefore(form) \o << form \o N_REF >> \o body \o after,
       eol |-> eol] :
        form \in IfForms \cup ElifForms, body \in Bodies, after \in LinesAfter,
        eol \in {LF, CRLF} }
    \cup { [lines |-> << L_OTHER >>, eol |-> LF] }

ConfigFileNames == { <<"C","o","n","f","i","g","_","P","G","E","L",".","h">> }

V_SOFTWARE == <<"0","x","1","9","0","3","5","B","0","2">>
V_EEPROM == <<"1","9","8","1">>
V_CODE == <<"I","N","V","1","2","K">>

L_ECHO == <<"@","e","c","h","o"," ","o","f","f">>
L_BIN2C ==
    <<"b","i","n","2","c"," ","a",".","b","i","n"," ","a"," ","e","e","p","r","o","m",
      "d","a","t","a">>

\* GenCode.bat: missing, or a script of two lines in either convention
GenCodeFiles ==
    { NoFile,
      L_ECHO \o LF \o L_BIN2C \o LF,
      L_ECHO \o CRLF \o L_BIN2C \o CRLF }

Init ==
    /\ FanIdle
    /\ pc = "createNewModel"
    /\ fileName \in ConfigFileNames
    /\ document \in PrimaryDocuments
    /\ content = GetText(document)
    /\ genCodeBat \in GenCodeFiles
    /\ existingModels = <<>>
    /\ boardNamePattern = <<>>
    /\ referenceModel = NoModel
    /\ newModelName = <<>>
    /\ softwareVersion = <<>>
    /\ customCodeName = <<>>
    /\ newModelBlock = <<>>
    /\ NamingIdle
    /\ SyncIdle

\* createNewModel up to the reference-model prompt: the file check, the
\* parse, and the board model of the block under the cursor
Start ==
    /\ pc = "createNewModel"
    /\ LET ms == parseExistingModels(GetText(document))
       IN  \E cursorLine \in 0..(Len(document.lines) - 1) :
          LET contextualModel == findModelAtPosition(ms, cursorLine)
          IN  IF ~isConfigFile(fileName) \/ Len(ms) = 0
                 \/ getCommonModelPrefix(ms) = <<>>
              THEN /\ pc' = "failed"
                   /\ UNCHANGED <<existingModels, boardNamePattern>>
              ELSE /\ existingModels' = ms
                   /\ boardNamePattern' =
                         IF contextualModel = NoModel THEN <<>>
                         ELSE extractBoardModelFromName(contextualModel.name)
                   /\ pc' = "selectReferenceModel"
    /\ UNCHANGED <<syncVars, content, namingVars, fileName, document, referenceModel,
                   newModelName, softwareVersion, customCodeName, newModelBlock,
                   genCodeBat>>
    /\ UNCHANGED fanVars

\* the reference-model pick (0: the prompt is cancelled)
SelectReferenceModel ==
    /\ pc = "selectReferenceModel"
    /\ \E pick \in {0} \cup modelsToShow(existingModels, boardNamePattern) :
          IF pick = 0
          THEN /\ pc' = "cancelled"
               /\ UNCHANGED referenceModel
          ELSE /\ referenceModel' = existingModels[pick]
               /\ pc' = "inputNewModelName"
    /\ UNCHANGED <<syncVars, parserVars, namingVars, fileName, document, boardNamePattern,
                   newModelName, softwareVersion, customCodeName, newModelBlock,
                   genCodeBat>>
    /\ UNCHANGED fanVars

\* the new name entered (one of names; Undefined: the prompt is cancelled),
\* then the customer name and the board model
InputNewModelNameFrom(names) ==
    /\ pc = "inputNewModelName"
    /\ \E value \in names :
          IF IsFalsy(value)
          THEN /\ pc' = "cancelled"
               /\ UNCHANGED <<newModelName, customerName, boardModel>>
          ELSE /\ newModelName' = value
               /\ customerName' = CustomerOfFile(fileName)
               /\ boardModel' = extractBoardModelFromName(referenceModel.name)
               /\ pc' = IF CustomerOfFile(fileName) = <<>>
                           \/ extractBoardModelFromName(referenceModel.name) = <<>>
                        THEN "failed"
                        ELSE "inputSoftwareVersion"
    /\ UNCHANGED <<syncVars, parserVars, name, eePromVersion, newEepromMacro, fileName,
                   document, boardNamePattern, referenceModel, softwareVersion,
                   customCodeName, newModelBlock, genCodeBat>>
    /\ UNCHANGED fanVars

PromptModelNames == {Undefined, N_NEW}

InputNewModelName == InputNewModelNameFrom(PromptModelNames)

\* the software version: the prompt dismissed, or a version entered
InputSoftwareVersion ==
    /\ pc = "inputSoftwareVersion"
    /\ softwareVersion' \in {Undefined, V_SOFTWARE}
    /\ pc' = "inputEePromVersion"
    /\ UNCHANGED <<syncVars, parserVars, namingVars, fileName, document, boardNamePattern,
                   referenceModel, newModelName, customCodeName, newModelBlock,
                   genCodeBat>>
    /\ UNCHANGED fanVars

\* the EEPROM version: the prompt dismissed, or a version entered
InputEePromVersion ==
    /\ pc = "inputEePromVersion"
    /\ eePromVersion' \in {Undefined, V_EEPROM}
    /\ pc' = "inputCustomCodeName"
    /\ UNCHANGED <<syncVars, parserVars, name, boardModel, customerName, newEepromMacro,
                   workflowVars>>
    /\ UNCHANGED fanVars

\* the code name: left empty, or a name entered
InputCustomCodeName ==
    /\ pc = "inputCustomCodeName"
    /\ customCodeName' \in {<<>>, V_CODE}
    /\ pc' = "inputMotorTypes"
    /\ UNCHANGED <<syncVars, parserVars, namingVars, fileName, document, boardNamePattern,
                   referenceModel, newModelName, softwareVersion, newModelBlock,
                   genCodeBat>>
    /\ UNCHANGED fanVars

\* the motor-type prompts (one of choices: a prompt that is dismissed or
\* left at "no setting" gives Undefined, the others a picked or typed
\* value), and then generateEepromMacro
InputMotorTypesFrom(choices) ==
    /\ pc = "inputMotorTypes"
    /\ motorTypes' \in choices
    /\ IF generateEepromMacroThrows(boardModel, customerName, eePromVersion)
       THEN /\ pc' = "failed"
            /\ UNCHANGED newEepromMacro
       ELSE /\ newEepromMacro' = generateEepromMacro(boardModel, customerName, eePromVersion)
            /\ pc' = "createModelConfiguration"
    /\ UNCHANGED <<afterLine, insertionLine, customH, systemParaC, binFiles, genCodeRuns,
                   reported, parserVars, name, boardModel, customerName, eePromVersion,
                   workflowVars>>
    /\ UNCHANGED fanVars

\* the motor types are read by updateCustomH only, which the runs that end
\* before it never reach: there both prompts are left at "no setting"
NoMotorChoice == {[motor1 |-> Undefined, motor2 |-> Undefined]}

InputMotorTypes == InputMotorTypesFrom(NoMotorChoice)

\* a variant for comparison: the result of applyEdit is not looked at
CreateModelConfigurationUnchecked ==
    /\ pc = "createModelConfiguration"
    /\ LET block == Join(SynthesizedLines(referenceModel, newModelName, newEepromMacro,
                                          softwareVersion, customCodeName, customerName),
                         LF)
       IN  /\ newModelBlock' = block
           /\ \E applied \in BOOLEAN :
                 IF applied
                 THEN /\ document' =
                            ReplaceLines(document, referenceModel.startLine,
                                         referenceModel.endLine,
                                         NewContent(referenceModel, document.eol, block))
                      /\ pc' = "updateGenCodeBat"
                 ELSE /\ pc' = "updateGenCodeBat"
                      /\ UNCHANGED document
    /\ UNCHANGED <<syncVars, parserVars, namingVars, fileName, boardNamePattern, referenceModel,
                   newModelName, softwareVersion, customCodeName, genCodeBat>>
    /\ UNCHANGED fanVars

\* createModelConfiguration: the block is synthesized and the edit applied;
\* applyEdit may refuse the edit
CreateModelConfiguration ==
    /\ pc = "createModelConfiguration"
    /\ LET block == Join(SynthesizedLines(referenceModel, newModelName, newEepromMacro,
                                          softwareVersion, customCodeName, customerName),
                         LF)
       IN  /\ newModelBlock' = block
           /\ \E applied \in BOOLEAN :
                 IF applied
                 THEN /\ document' =
                            ReplaceLines(document, referenceModel.startLine,
                                         referenceModel.endLine,
                                         NewContent(referenceModel, document.eol, block))
                      /\ pc' = "updateGenCodeBat"
                 ELSE /\ pc' = "failed"
                      /\ UNCHANGED document
    /\ UNCHANGED <<syncVars, parserVars, namingVars, fileName, boardNamePattern, referenceModel,
                   newModelName, softwareVersion, customCodeName, genCodeBat>>
    /\ UNCHANGED fanVars

\* updateGenCodeBat: nothing without the file or when the command is in it;
\* a failing read or write is caught and leaves the file as it is
UpdateGenCodeBat ==
    /\ pc = "updateGenCodeBat"
    /\ \E written \in BOOLEAN :
          LET r == updateGenCodeBat(genCodeBat, newEepromMacro, written)
          IN  /\ genCodeBat' = r.content
              /\ reported' = reported \cup {r.report}
    /\ pc' = "updateSystemParaC"
    /\ UNCHANGED <<afterLine, insertionLine, customH, systemParaC, motorTypes, binFiles,
                   genCodeRuns, parserVars, namingVars, fileName, document,
                   boardNamePattern, referenceModel, newModelName, softwareVersion,
                   customCodeName, newModelBlock>>
    /\ UNCHANGED fanVars

Next ==
    \/ Start
    \/ SelectReferenceModel
    \/ InputNewModelName
    \/ InputSoftwareVersion
    \/ InputEePromVersion
    \/ InputCustomCodeName
    \/ InputMotorTypes
    \/ CreateModelConfiguration
    \/ UpdateGenCodeBat

Spec == Init /\ [][Next]_vars

(***************************************************************************)
(* The synthesized block                                                   *)
(***************************************************************************)
\* the lines of the block createModelConfiguration synthesized
newLines == SplitOn(newModelBlock, "\n")
\* the lines of the reference block
refLines == SplitOn(referenceModel.configBlock, "\n")

\* the line is a definition of the macro: #define and the macro name lead it
IsDefinitionOf(line, macro) ==
    LET t == Trim(line)
    IN  /\ StartsWith(t, S_define)
        /\ SkipWhitespace(t, 8) > 8
        /\ OccursAt(t, macro, SkipWhitespace(t, 8))

\* the 0-based index of the first line that defines the macro, -1 if none
DefiningIndex(lines, macro) ==
    LET at == { k \in 0..(Len(lines) - 1) : IsDefinitionOf(lines[k + 1], macro) }
    IN  IF at = {} THEN -1 ELSE CHOOSE k \in at : \A m \in at : k <= m

\* C6: the first line of the synthesized block is an #elif directive whose
\* condition is the new model name, whatever the form of the reference
\* block's header
SynthesizedHeaderIsElif ==
    newModelBlock # <<>> =>
        /\ StartsWith(Trim(newLines[1]), S_elif)
        /\ DirectiveName(Trim(newLines[1])) = newModelName

\* C7: with no software version and no code name supplied, the synthesized
\* block defines neither SOFTWARE_VERSION nor CUSTOM_CODE_NAME and has
\* exactly one EEPROMDATA definition, which names the new EEPROM macro
OptionalFieldsOmitted ==
    (newModelBlock # <<>> /\ IsFalsy(softwareVersion) /\ IsFalsy(customCodeName)) =>
        LET eeprom == { k \in 1..Len(newLines) : IsDefinitionOf(newLines[k], S_EEPROMDATA_) }
        IN  /\ \A k \in 1..Len(newLines) :
                  /\ ~IsDefinitionOf(newLines[k], S_SOFTWARE_VERSION)
                  /\ ~IsDefinitionOf(newLines[k], S_CUSTOM_CODE_NAME)
            /\ Cardinality(eeprom) = 1
            /\ \A k \in eeprom :
                  LET m == MatchEepromToken(newLines[k])
                  IN  SubSeq(newLines[k], m[1], m[2]) = newEepromMacro

\* the value the operator supplied for a field
SuppliedValue(key) ==
    CASE key = "SOFTWARE_VERSION" -> softwareVersion
      [] key = "CUSTOM_CODE_NAME" -> customCodeName
      [] key = "EEPROMDATA" -> newEepromMacro

\* the value portion of a field's line, <<0, 0>> when it has none
ValuePortion(key, line) ==
    CASE key = "SOFTWARE_VERSION" -> MatchHexVersion(line)
      [] key = "CUSTOM_CODE_NAME" -> MatchQuoted(line)
      [] key = "EEPROMDATA" -> MatchEepromToken(line)

\* new carries the value where old has its value portion m, and is old
\* character for character before and after it
CarriesInPlace(old, new, m, value) ==
    LET before == SubSeq(old, 1, m[1] - 1)
        after == SubSeq(old, m[2] + 1, Len(old))
    IN  /\ m[1] # 0
        /\ Len(new) >= Len(before) + Len(after)
        /\ StartsWith(new, before)
        /\ EndsWith(new, after)
        /\ Includes(SubSeq(new, Len(before) + 1, Len(new) - Len(after)), value)

\* C8: for each field with a supplied value whose definition is in the
\* reference block, the synthesized block has at the same line index a line
\* that carries the value and is otherwise the reference line
ValuesWrittenInPlace ==
    newModelBlock # <<>> =>
        \A key \in {"SOFTWARE_VERSION", "CUSTOM_CODE_NAME", "EEPROMDATA"} :
            LET i == DefiningIndex(refLines, ProcessorMacro(key))
            IN  (~IsFalsy(SuppliedValue(key)) /\ i > -1) =>
                    /\ i < Len(newLines)
                    /\ CarriesInPlace(refLines[i + 1], newLines[i + 1],
                                      ValuePortion(key, refLines[i + 1]),
                                      SuppliedValue(key))

(***************************************************************************)
(* The edit of the primary document                                        *)
(***************************************************************************)
\* the lines of the document before the operation
originalLines == SplitLines(content)

\* C9: after createModelConfiguration the document is the original document
\* with one blank line and the synthesized block added after the last line
\* of the reference block; every original line is kept in place and order
OnlyNewBlockAdded ==
    pc \in {"updateGenCodeBat", "updateSystemParaC"} =>
        /\ document.lines =
              SubSeq(originalLines, 1, referenceModel.endLine + 1)
              \o << <<>> >> \o newLines
              \o SubSeq(originalLines, referenceModel.endLine + 2, Len(originalLines))
        /\ GetText([document EXCEPT !.lines = originalLines]) = content

\* a later arm of a CRLF document was the reference and the block is added
BlockAddedAfterLaterArm ==
    /\ pc = "updateGenCodeBat"
    /\ document.eol = CRLF
    /\ referenceModel.startLine > 0
    /\ Len(document.lines) > Len(originalLines) + 2
    /\ referenceModel.endLine + 2 < Len(originalLines)

\* every \n of the text follows a \r
AllCRLF(text) ==
    \A k \in 1..Len(text) : text[k] = "\n" => (k > 1 /\ text[k - 1] = "\r")

\* C10: every step leaves each file in its own line-terminator convention:
\* the primary document keeps its terminator, an LF-only GenCode.bat gets
\* no \r and a CRLF GenCode.bat no bare \n
TerminatorsFollowFile ==
    [][ /\ document'.eol = document.eol
        /\ (genCodeBat # NoFile /\ ~Includes(genCodeBat, <<"\r">>))
              => ~Includes(genCodeBat', <<"\r">>)
        /\ (genCodeBat # NoFile /\ Includes(genCodeBat, CRLF))
              => AllCRLF(genCodeBat') ]_vars

(***************************************************************************)
(* updateCustomH and findNextPreprocessorLine on their own: every Custom.h *)
(* of up to MaxParseLines lines, in the middle of one run of createNewModel*)
(***************************************************************************)
M_COMP == <<"C","O","M","P","_","A">>
M_FAN == <<"M","O","T","O","R","2","_","F","A","N","_","B">>
L_NESTED_IF == <<"#","i","f"," ","C">>
L_ENDIF_COMMENT == <<" ","#","e","n","d","i","f"," ","/","/"," ","x">>
L_MOTOR1 ==
    <<"\t","#","d","e","f","i","n","e"," ","M","O","T","O","R","1","_","T","Y","P","E",
      "\t","C","O","M","P","_","Z">>

\* the lines findNextPreprocessorLine is called on
DirectiveLines ==
    { <<"#","i","f"," ">> \o N_REF,
      <<"#","e","l","i","f"," ">> \o N_PGEL_KFW35C_7_AC_001,
      S_else, S_endif, L_ENDIF_COMMENT, L_MOTOR1, <<>> }

DirectiveDocuments ==
    { [lines |-> d, eol |-> LF] :
        d \in UNION { [1..n -> DirectiveLines] : n \in 1..MaxParseLines } }

\* the lines of the Custom.h that updateCustomH works on
CustomHLines ==
    { <<"#","i","f"," ">> \o N_REF,
      <<"#","e","l","i","f"," ">> \o N_PGEL_KFW35C_7_AC_001,
      L_NESTED_IF, S_endif, L_MOTOR1, <<>> }

CustomHDocuments ==
    { [lines |-> d, eol |-> eol] :
        d \in UNION { [1..n -> CustomHLines] : n \in 1..MaxParseLines },
        eol \in {LF} }

MotorChoices ==
    { [motor1 |-> Undefined, motor2 |-> Undefined],
      [motor1 |-> M_COMP, motor2 |-> M_FAN] }

\* the primary document of the run the steps below are taken from
D_PRIMARY ==
    [lines |-> << <<"#","i","f"," ">> \o N_REF, L_EEPROMDATA, S_endif >>, eol |-> LF]

\* the state of a run that has edited the primary document, the document
\* having its only block selected as the reference: new name N_NEW, EEPROM
\* version V_EEPROM, no software version and no code name
EditedRun(primary) ==
    LET ms == parseExistingModels(GetText(primary))
        board == extractBoardModelFromName(ms[1].name)
        macro == generateEepromMacro(board, S_PGEL, V_EEPROM)
        block == Join(SynthesizedLines(ms[1], N_NEW, macro, Undefined, <<>>, S_PGEL), LF)
    IN  /\ fileName \in ConfigFileNames
        /\ content = GetText(primary)
        /\ existingModels = ms
        /\ boardNamePattern = board
        /\ referenceModel = ms[1]
        /\ newModelName = N_NEW
        /\ name = <<>>
        /\ customerName = S_PGEL
        /\ boardModel = board
        /\ softwareVersion = Undefined
        /\ eePromVersion = V_EEPROM
        /\ customCodeName = <<>>
        /\ newEepromMacro = macro
        /\ newModelBlock = block
        /\ document = ReplaceLines(primary, ms[1].startLine, ms[1].endLine,
                                   NewContent(ms[1], LF, block))

PrimaryEdited == EditedRun(D_PRIMARY)

\* the same run after updateGenCodeBat found no GenCode.bat
AfterPrimaryEdit ==
    /\ PrimaryEdited
    /\ genCodeBat = NoFile

InitInsertion ==
    /\ FanIdle
    /\ afterLine = -1
    /\ insertionLine = -1
    /\ systemParaC = NoDocument
    /\ binFiles = {}
    /\ genCodeRuns = 0
    /\ \/ /\ pc = "start"
          /\ ParserIdle
          /\ NamingIdle
          /\ WorkflowIdle
          /\ customH \in DirectiveDocuments
          /\ motorTypes = [motor1 |-> Undefined, motor2 |-> Undefined]
          /\ reported = {}
       \/ /\ pc = "updateCustomH"
          /\ reported = {"GenCodeMissing", "SystemParaMissing"}
          /\ AfterPrimaryEdit
          /\ customH \in CustomHDocuments
          /\ motorTypes \in MotorChoices

\* findNextPreprocessorLine called on Custom.h after any of its lines
CallFindNextPreprocessorLine ==
    /\ pc = "start"
    /\ \E from \in -1..(Len(customH.lines) - 1) :
          /\ afterLine' = from
          /\ insertionLine' = findNextPreprocessorLine(customH, from)
    /\ pc' = "found"
    /\ UNCHANGED <<parserVars, namingVars, workflowVars, customH, systemParaC,
                   motorTypes, binFiles, genCodeRuns, reported>>
    /\ UNCHANGED fanVars

\* findNextPreprocessorLine called after a block parseExistingModels returned
CallFindAfterBlock ==
    /\ pc = "start"
    /\ \E k \in 1..Len(parseExistingModels(GetText(customH))) :
          LET b == parseExistingModels(GetText(customH))[k]
          IN  /\ afterLine' = b.endLine
              /\ insertionLine' = findNextPreprocessorLine(customH, b.endLine)
    /\ pc' = "foundAfterBlock"
    /\ UNCHANGED <<parserVars, namingVars, workflowVars, customH, systemParaC,
                   motorTypes, binFiles, genCodeRuns, reported>>
    /\ UNCHANGED fanVars

\* updateCustomH: applyEdit may refuse the edit; a failure is caught and
\* reported, and the run goes on
UpdateCustomH ==
    /\ pc = "updateCustomH"
    /\ \E applied \in BOOLEAN :
          LET r == updateCustomH(customH, referenceModel.name, newModelName,
                                 motorTypes, applied)
          IN  /\ customH' = r.doc
              /\ reported' = reported \cup {r.report}
              /\ afterLine' = r.ref.endLine
              /\ insertionLine' = r.line
    /\ pc' = "handleBinFileAndExecuteGenCode"
    /\ UNCHANGED <<parserVars, namingVars, workflowVars, systemParaC, motorTypes,
                   binFiles, genCodeRuns>>
    /\ UNCHANGED fanVars

NextInsertion ==
    \/ CallFindNextPreprocessorLine
    \/ CallFindAfterBlock
    \/ UpdateCustomH

SpecInsertion == InitInsertion /\ [][NextInsertion]_vars

\* the trimmed line i of a document starts with one of #elif, #else, #endif
IsArmOrEndLine(doc, i) ==
    LET t == Trim(doc.lines[i + 1])
    IN  StartsWith(t, S_elif) \/ StartsWith(t, S_else) \/ StartsWith(t, S_endif)

\* the insertion line as the contract states it: the smallest index after
\* from that holds #elif, #else or #endif, else the last line that is
\* #endif, else -1
SpecifiedInsertionLine(doc, from) ==
    LET next == { i \in (from + 1)..(Len(doc.lines) - 1) : IsArmOrEndLine(doc, i) }
        ends == { i \in 0..(Len(doc.lines) - 1) : Trim(doc.lines[i + 1]) = S_endif }
    IN  IF next # {} THEN CHOOSE i \in next : \A j \in next : i <= j
        ELSE IF ends # {} THEN CHOOSE i \in ends : \A j \in ends : i >= j
        ELSE -1

\* C11: findNextPreprocessorLine returns the smallest index after afterLine
\* whose trimmed line starts with #elif, #else or #endif, else the index of
\* the last line that is #endif, else -1; and updateCustomH, given -1,
\* reports a failure and leaves Custom.h as it is
InsertionLineAsSpecified ==
    [][ /\ pc' \in {"found", "foundAfterBlock"}
            => insertionLine' = SpecifiedInsertionLine(customH, afterLine')
        /\ (pc = "updateCustomH" /\ afterLine' # -1)
            => /\ insertionLine' = SpecifiedInsertionLine(customH, afterLine')
               /\ insertionLine' = -1
                    => (customH' = customH /\ "CustomHFailed" \in reported') ]_vars

\* the fallback was taken: no directive follows afterLine and the last
\* #endif line, which is not the first one, is returned
FallbackToLastEndif ==
    /\ pc = "found"
    /\ insertionLine # -1
    /\ insertionLine <= afterLine
    /\ \E i \in 0..(insertionLine - 1) : Trim(customH.lines[i + 1]) = S_endif

\* C12: the insertion line computed after a block that parseExistingModels
\* returned is never a line of that block
InsertionOutsideBlock ==
    pc = "foundAfterBlock" =>
        LET ms == parseExistingModels(GetText(customH))
        IN  \A k \in 1..Len(ms) :
                ms[k].endLine = afterLine =>
                    ~(ms[k].startLine <= insertionLine /\ insertionLine <= ms[k].endLine)

\* the insertion line was computed after a block of a header line only, and
\* again after a block that nothing follows
AfterHeaderOnlyBlock ==
    /\ pc = "foundAfterBlock"
    /\ insertionLine = afterLine + 1
    /\ \E b \in { parseExistingModels(GetText(customH))[k] :
                    k \in 1..Len(parseExistingModels(GetText(customH))) } :
          b.endLine = afterLine /\ b.startLine = b.endLine

\* C13: when updateCustomH edits Custom.h, the re-parsed document has the
\* reference block where it was and the new block as its direct successor,
\* with only blank lines between the two
NewArmFollowsReference ==
    [][ (pc = "updateCustomH" /\ customH' # customH) =>
            LET b == FindModelNamed(parseExistingModels(GetText(customH)),
                                    referenceModel.name)
                ms == parseExistingModels(GetText(customH'))
            IN  \E k \in 1..(Len(ms) - 1) :
                    /\ ms[k].name = b.name
                    /\ ms[k].startLine = b.startLine
                    /\ ms[k].endLine = b.endLine
                    /\ ms[k + 1].name = newModelName
                    /\ \A i \in (b.endLine + 1)..(ms[k + 1].startLine - 1) :
                          Trim(customH'.lines[i + 1]) = <<>> ]_vars

(***************************************************************************)
(* updateGenCodeBat on its own: the step of the run above on scripts of up *)
(* to MaxScriptLines lines                                                 *)
(***************************************************************************)
MaxScriptLines == 3

\* the command the run above adds
L_COMMAND ==
    GenCodeCommand(generateEepromMacro(extractBoardModelFromName(N_REF), S_PGEL, V_EEPROM))

\* the lines of a script: the command, the command commented out, and others
ScriptLines ==
    { L_ECHO, L_BIN2C, L_COMMAND, <<"r","e","m"," ">> \o L_COMMAND }

\* scripts in either convention, with and without a terminator at the end
GenCodeScripts ==
    UNION { { Join(d, eol), Join(d, eol) \o eol } :
                d \in UNION { [1..n -> ScriptLines] : n \in 1..MaxScriptLines },
                eol \in {LF, CRLF} }

InitGenCode ==
    /\ FanIdle
    /\ pc = "updateGenCodeBat"
    /\ PrimaryEdited
    /\ genCodeBat \in GenCodeScripts
    /\ SyncIdle

NextGenCode == UpdateGenCodeBat

SpecGenCode == InitGenCode /\ [][NextGenCode]_vars

\* some line of the script is the command
HasIdenticalLine(contentString, command) ==
    \E i \in 1..Len(SplitLines(contentString)) : SplitLines(contentString)[i] = command

\* C16: when the write does not fail, updateGenCodeBat appends the command
\* for the new macro exactly when no line of GenCode.bat is that command,
\* and leaves the file as it is when one is
AppendedUnlessIdenticalLine ==
    [][ (pc = "updateGenCodeBat" /\ genCodeBat # NoFile
            /\ "GenCodeFailed" \notin reported')
        => IF HasIdenticalLine(genCodeBat, GenCodeCommand(newEepromMacro))
           THEN genCodeBat' = genCodeBat
           ELSE genCodeBat' = GenCodeNewContent(genCodeBat, newEepromMacro) ]_vars

(***************************************************************************)
(* updateSystemParaC on its own: the step of a run on each of three        *)
(* primary documents, on every SystemPara.c of up to MaxParaLines lines    *)
(***************************************************************************)
MaxParaLines == 3

N_DERIVED == <<"P","G","E","L","_","K","F","W","7","2","C","_","4","_","1","9","8","0">>
N_UNDERIVED == <<"P","G","E","L","_","K","F","W","7","2","C","_","4","_">>

\* a reference block that defines no EEPROM macro, its name giving the macro
\* that D_PRIMARY defines
D_DERIVED ==
    [lines |-> << <<"#","i","f"," ">> \o N_DERIVED, L_OTHER, S_endif >>, eol |-> LF]

\* a reference block that defines no EEPROM macro, its name ending in _
D_UNDERIVED ==
    [lines |-> << <<"#","i","f"," ">> \o N_UNDERIVED, L_OTHER, S_endif >>, eol |-> LF]

M_REFERENCE == generateEepromMacro(extractBoardModelFromName(N_REF), S_PGEL, <<"1","9","8","0">>)
M_NEW == generateEepromMacro(extractBoardModelFromName(N_REF), S_PGEL, V_EEPROM)
L_INCLUDE == <<"#","i","n","c","l","u","d","e"," ","\"","r",".","h","\"">>

\* the lines of SystemPara.c: arms of the reference macro, of a longer macro,
\* of the new macro and of a macro that starts with the new one, and the
\* lines around them
SystemParaLines ==
    { <<"#","i","f"," ","X">>,
      S_elif \o <<" ">> \o M_REFERENCE,
      <<" ">> \o S_elif \o <<" "," ">> \o M_REFERENCE \o <<"_","2">>,
      L_INCLUDE,
      S_else,
      S_endif,
      S_elif \o <<" ">> \o M_NEW,
      S_elif \o <<" ">> \o M_NEW \o <<"_","2">>,
      <<"/","/"," ">> \o M_NEW }

SystemParaDocuments ==
    { [lines |-> d, eol |-> LF] :
        d \in UNION { [1..n -> SystemParaLines] : n \in 1..MaxParaLines } }

InitSystemPara ==
    /\ FanIdle
    /\ pc = "updateSystemParaC"
    /\ \E primary \in {D_PRIMARY, D_DERIVED, D_UNDERIVED} : EditedRun(primary)
    /\ genCodeBat = NoFile
    /\ afterLine = -1
    /\ insertionLine = -1
    /\ customH = NoDocument
    /\ systemParaC \in SystemParaDocuments
    /\ motorTypes = [motor1 |-> Undefined, motor2 |-> Undefined]
    /\ binFiles = {}
    /\ genCodeRuns = 0
    /\ reported = {"GenCodeMissing"}

\* updateSystemParaC: applyEdit may refuse the edit; a failure is caught and
\* reported, and the run goes on
\* a variant for comparison: a failure of the step is not caught and ends
\* the run
UpdateSystemParaCUncaught ==
    /\ pc = "updateSystemParaC"
    /\ \E applied \in BOOLEAN :
          LET r == updateSystemParaC(systemParaC, referenceModel, newEepromMacro,
                                     customerName, applied)
          IN  /\ systemParaC' = r.doc
              /\ reported' = reported \cup {r.report}
              /\ insertionLine' = r.line
              /\ pc' = IF r.report = "SystemParaFailed" THEN "failed" ELSE "updateCustomH"
    /\ UNCHANGED <<parserVars, namingVars, workflowVars, afterLine, customH, motorTypes,
                   binFiles, genCodeRuns>>
    /\ UNCHANGED fanVars

UpdateSystemParaC ==
    /\ pc = "updateSystemParaC"
    /\ \E applied \in BOOLEAN :
          LET r == updateSystemParaC(systemParaC, referenceModel, newEepromMacro,
                                     customerName, applied)
          IN  /\ systemParaC' = r.doc
              /\ reported' = reported \cup {r.report}
              /\ insertionLine' = r.line
    /\ pc' = "updateCustomH"
    /\ UNCHANGED <<parserVars, namingVars, workflowVars, afterLine, customH, motorTypes,
                   binFiles, genCodeRuns>>
    /\ UNCHANGED fanVars

NextSystemPara == UpdateSystemParaC

SpecSystemPara == InitSystemPara /\ [][NextSystemPara]_vars

\* the macro of the reference entry as the contract states it: the one the
\* reference block defines, else the one derived from its name, Undefined
\* when there is neither
StatedRefMacro ==
    IF MatchEepromDefine(referenceModel.configBlock) # Undefined
    THEN MatchEepromDefine(referenceModel.configBlock)
    ELSE deriveRefEepromMacro(referenceModel, customerName).macro

\* the line the contract places the pair before: the first directive after
\* the first #elif arm of macro (the end of the file when none follows),
\* else the first #else line, else -1
StatedParaLine(doc, macro) ==
    LET n == Len(doc.lines)
        arms == IF macro = Undefined THEN {}
                ELSE { i \in 0..(n - 1) : TestElifOf(doc.lines[i + 1], macro) }
        arm == CHOOSE i \in arms : \A j \in arms : i <= j
        next == { i \in (arm + 1)..(n - 1) : IsArmOrEndLine(doc, i) }
        elses == { i \in 0..(n - 1) : StartsWith(Trim(doc.lines[i + 1]), S_else) }
    IN  IF arms # {}
        THEN IF next = {} THEN n ELSE CHOOSE i \in next : \A j \in next : i <= j
        ELSE IF elses # {} THEN CHOOSE i \in elses : \A j \in elses : i <= j
        ELSE -1

\* C17: updateSystemParaC, on a SystemPara.c that does not hold the new
\* macro yet, inserts the #elif / #include pair before the first directive
\* that follows the #elif arm of the reference entry's macro, or before the
\* first #else line when there is no such arm (an edit that is refused is
\* reported); with neither it reports a failure and leaves the file alone
ParaBlockPlacedAsStated ==
    [][ (/\ pc = "updateSystemParaC"
         /\ systemParaC # NoDocument
         /\ ~Includes(GetText(systemParaC), newEepromMacro))
        => LET line == StatedParaLine(systemParaC, StatedRefMacro)
               pair == SystemParaBlock(newEepromMacro, customerName, systemParaC.eol)
           IN  IF line = -1
               THEN /\ systemParaC' = systemParaC
                    /\ "SystemParaFailed" \in reported'
               ELSE \/ /\ systemParaC' =
                            InsertLines(systemParaC, line, pair \o systemParaC.eol)
                       /\ "SystemParaUpdated" \in reported'
                    \/ /\ systemParaC' = systemParaC
                       /\ "SystemParaFailed" \in reported'
                       /\ insertionLine' = line ]_vars

\* C18: when SystemPara.c already holds the new macro, updateSystemParaC
\* reports it as already present and leaves the file as it is, the primary
\* document keeps its edit and the run goes on to the next step
PresentMacroIsSkipped ==
    [][ (/\ pc = "updateSystemParaC"
         /\ systemParaC # NoDocument
         /\ Includes(GetText(systemParaC), newEepromMacro))
        => /\ systemParaC' = systemParaC
           /\ "SystemParaAlreadyPresent" \in reported'
           /\ "SystemParaFailed" \notin reported'
           /\ document' = document
           /\ pc' = "updateCustomH" ]_vars

(***************************************************************************)
(* The whole run of createNewModel, from the command to saveAll, in a      *)
(* workspace that holds the collaborator files                             *)
(***************************************************************************)
\* a variant for comparison: several .bin files do not keep the script
\* from running
handleBinFileAndExecuteGenCodeAnyCount(bins, macro, script, outcome) ==
    IF Cardinality(bins) >= 1 /\ outcome = "ok" /\ script # NoFile
    THEN [bins |-> {}, runs |-> 1, report |-> "BinCleaned"]
    ELSE [bins |-> bins, runs |-> 0, report |-> "BinNone"]

\* handleBinFileAndExecuteGenCode on the .bin files beside the primary
\* file: one file is renamed after the macro, GenCode.bat is run and every
\* .bin file deleted; several are deleted without a run; rename and the run
\* of the script may fail (the script fails when it is not there), which is
\* caught and reported
handleBinFileAndExecuteGenCode(bins, macro, script, outcome) ==
    LET renamed == { transformMacroToFilename(macro) \o <<".","b","i","n">> }
    IN  IF Cardinality(bins) = 1
        THEN IF outcome = "renameFails"
             THEN [bins |-> bins, runs |-> 0, report |-> "BinFailed"]
             ELSE IF outcome = "execFails" \/ script = NoFile
             THEN [bins |-> renamed, runs |-> 0, report |-> "BinFailed"]
             ELSE [bins |-> {}, runs |-> 1, report |-> "BinCleaned"]
        ELSE IF Cardinality(bins) > 1
        THEN [bins |-> {}, runs |-> 0, report |-> "BinSkipped"]
        ELSE [bins |-> bins, runs |-> 0, report |-> "BinNone"]

HandleBinFileAndExecuteGenCode ==
    /\ pc = "handleBinFileAndExecuteGenCode"
    /\ \E outcome \in {"renameFails", "execFails", "ok"} :
          LET r == handleBinFileAndExecuteGenCode(binFiles, newEepromMacro, genCodeBat,
                                                  outcome)
          IN  /\ binFiles' = r.bins
              /\ genCodeRuns' = genCodeRuns + r.runs
              /\ reported' = reported \cup {r.report}
    /\ pc' = "saveAll"
    /\ UNCHANGED <<parserVars, namingVars, workflowVars, afterLine, insertionLine, customH,
                   systemParaC, motorTypes>>
    /\ UNCHANGED fanVars

\* vscode.workspace.saveAll() ends the run
SaveAll ==
    /\ pc = "saveAll"
    /\ pc' = "done"
    /\ UNCHANGED <<parserVars, namingVars, workflowVars, syncVars>>
    /\ UNCHANGED fanVars

N_OTHER == <<"P","G","E","L","_","K","F","W","3","5","C","_","7","_","A","C","_","0","0","2">>

\* a name on another board than the reference may be typed as well, and
\* the name of the first block of D_PRIMARY, which the prompt is filled with
\* when that block is the reference, may be accepted as it is
RunModelNames == {Undefined, N_NEW, N_OTHER, N_REF}

InputAnyModelName == InputNewModelNameFrom(RunModelNames)

\* both motor types, none, and the compressor alone
RunMotorChoices == MotorChoices \cup {[motor1 |-> M_COMP, motor2 |-> Undefined]}

InputAnyMotorTypes == InputMotorTypesFrom(RunMotorChoices)

\* primary documents: two that can be edited, one without a block, one
\* whose reference name holds no board model, one whose first name has an
\* empty first part
RunDocuments ==
    { D_PRIMARY, D_DERIVED,
      [lines |-> << L_OTHER >>, eol |-> LF],
      [lines |-> << <<"#","i","f"," ","P","G","E","L","_","X","_","0","0","1">>, L_OTHER, S_endif >>, eol |-> LF],
      [lines |-> << <<"#","i","f"," ","_","K","F","W","7","2","C","_","4","_","0","0","1">>, L_OTHER, S_endif >>, eol |-> LF] }

RunFileNames == ConfigFileNames \cup { <<"C","o","n","f","i","g","_",".","h">> }

P_SYSTEMPARA ==
    [lines |-> << <<"#","i","f"," ","X">>, S_elif \o <<" ">> \o M_REFERENCE, L_INCLUDE,
                  S_else, S_endif >>,
     eol |-> LF]

H_CUSTOM ==
    [lines |-> << <<"#","i","f"," ">> \o N_REF, L_MOTOR1, S_endif >>, eol |-> LF]

BinDirectories == { {}, { <<"a",".","b","i","n">> }, { <<"a",".","b","i","n">>, <<"b",".","b","i","n">> } }

InitRun ==
    /\ FanIdle
    /\ pc = "createNewModel"
    /\ fileName \in RunFileNames
    /\ document \in RunDocuments
    /\ content = GetText(document)
    /\ genCodeBat \in {NoFile, L_ECHO \o CRLF}
    /\ systemParaC \in {NoDocument, P_SYSTEMPARA}
    /\ customH \in {NoDocument, H_CUSTOM}
    /\ binFiles \in BinDirectories
    /\ existingModels = <<>>
    /\ boardNamePattern = <<>>
    /\ referenceModel = NoModel
    /\ newModelName = <<>>
    /\ softwareVersion = <<>>
    /\ customCodeName = <<>>
    /\ newModelBlock = <<>>
    /\ NamingIdle
    /\ afterLine = -1
    /\ insertionLine = -1
    /\ motorTypes = [motor1 |-> Undefined, motor2 |-> Undefined]
    /\ genCodeRuns = 0
    /\ reported = {}

NextRun ==
    \/ Start
    \/ SelectReferenceModel
    \/ InputAnyModelName
    \/ InputSoftwareVersion
    \/ InputEePromVersion
    \/ InputCustomCodeName
    \/ InputAnyMotorTypes
    \/ CreateModelConfiguration
    \/ UpdateGenCodeBat
    \/ UpdateSystemParaC
    \/ UpdateCustomH
    \/ HandleBinFileAndExecuteGenCode
    \/ SaveAll

SpecRun == InitRun /\ [][NextRun]_vars

\* the block of the new name in the primary document as it is now
NewBlocks ==
    LET ms == parseExistingModels(GetText(document))
    IN  { ms[k] : k \in { i \in 1..Len(ms) : ms[i].name = newModelName } }

\* the steps of a run that come after the primary document was edited
AfterEdit ==
    {"updateGenCodeBat", "updateSystemParaC", "updateCustomH",
     "handleBinFileAndExecuteGenCode", "saveAll", "done"}

\* C14: once createModelConfiguration has applied its edit, the primary
\* document parses to a block of the new name, and the board model of that
\* name is the board model of the reference name
RoundTripKeepsBoardModel ==
    pc \in AfterEdit =>
        \E b \in NewBlocks :
            extractBoardModelFromName(b.name)
                = extractBoardModelFromName(referenceModel.name)

\* C15: after a run whose primary, GenCode.bat and SystemPara.c steps all
\* applied their edit, the new block defines the new macro, SystemPara.c
\* has an #elif arm of it, and the command in GenCode.bat and the #include
\* in SystemPara.c name the file transformMacroToFilename gives for it
MacroCorrelatesFiles ==
    (/\ pc \in {"updateCustomH", "handleBinFileAndExecuteGenCode", "saveAll", "done"}
     /\ "GenCodeUpdated" \in reported
     /\ "SystemParaUpdated" \in reported)
    => LET file == transformMacroToFilename(newEepromMacro)
           include == <<"#","i","n","c","l","u","d","e"," ","\"","C","u","s","t","o","m",
                        "e","r","C","o","n","f","i","g","/">>
                      \o customerName \o <<"/">> \o file \o <<".","h","\"">>
           command == <<"b","i","n","2","c"," ">> \o file \o <<".","b","i","n"," ">>
                      \o file \o <<" ","e","e","p","r","o","m","d","a","t","a">>
       IN  /\ \E b \in NewBlocks : MatchEepromDefine(b.configBlock) = newEepromMacro
           /\ \E i \in 1..Len(systemParaC.lines) :
                 Trim(systemParaC.lines[i]) = S_elif \o <<" ">> \o newEepromMacro
           /\ \E i \in 1..Len(systemParaC.lines) : systemParaC.lines[i] = include
           /\ \E i \in 1..Len(SplitLines(genCodeBat)) : SplitLines(genCodeBat)[i] = command

\* the steps of a run up to the edit of the primary document
UpToEdit ==
    {"createNewModel", "selectReferenceModel", "inputNewModelName",
     "inputSoftwareVersion", "inputEePromVersion", "inputCustomCodeName",
     "inputMotorTypes", "createModelConfiguration"}

\* C19: a primary document without a block or without a common prefix, a
\* file name without a customer name, a reference name without a board
\* model and a refused edit each end the run as failed; a run fails only
\* in a step up to the edit, and those steps leave GenCode.bat,
\* SystemPara.c, Custom.h and the .bin files alone and do not run the
\* script; the steps before the edit, and a refused edit, leave the
\* primary document alone as well
FatalBeforeCollaborators ==
    [][ /\ (pc = "createNewModel"
              /\ (Len(parseExistingModels(GetText(document))) = 0
                    \/ getCommonModelPrefix(parseExistingModels(GetText(document))) = <<>>))
            => pc' = "failed"
        /\ (pc = "inputNewModelName" /\ pc' # "cancelled"
              /\ (CustomerOfFile(fileName) = <<>>
                    \/ extractBoardModelFromName(referenceModel.name) = <<>>))
            => pc' = "failed"
        /\ (pc = "createModelConfiguration" /\ document' = document) => pc' = "failed"
        /\ pc' = "failed" => (pc \in UpToEdit /\ document' = document)
        /\ pc \in UpToEdit
            => UNCHANGED <<genCodeBat, systemParaC, customH, binFiles, genCodeRuns>>
        /\ pc \in UpToEdit \ {"createModelConfiguration"} => document' = document ]_vars

\* the edit of the primary document was refused in a workspace that holds
\* every collaborator file and one .bin file
RefusedEditWithCollaborators ==
    /\ pc = "failed"
    /\ newModelBlock # <<>>
    /\ genCodeBat # NoFile
    /\ systemParaC # NoDocument
    /\ customH # NoDocument
    /\ Cardinality(binFiles) = 1

\* C20: once a prompt has returned nothing (the reference or the new name
\* cancelled, the software version or the EEPROM version dismissed), no
\* step changes the primary document, GenCode.bat, SystemPara.c, Custom.h
\* or the .bin files
DismissedPromptTouchesNothing ==
    [][ (pc = "cancelled" \/ softwareVersion = Undefined \/ eePromVersion = Undefined)
        => UNCHANGED <<document, genCodeBat, systemParaC, customH, binFiles>> ]_vars

\* a value that is absent or empty
AbsentOrEmpty(v) == v = Undefined \/ v = <<>>

\* the files a run works on
files == <<document, genCodeBat, systemParaC, customH, binFiles>>

InitCollaborators ==
    /\ FanIdle
    /\ pc = "updateGenCodeBat"
    /\ \E primary \in {D_PRIMARY, D_DERIVED} : EditedRun(primary)
    /\ genCodeBat \in {NoFile, L_ECHO \o CRLF}
    /\ systemParaC \in {NoDocument, P_SYSTEMPARA}
    /\ customH \in {NoDocument, H_CUSTOM}
    /\ motorTypes \in RunMotorChoices
    /\ binFiles \in BinDirectories
    /\ afterLine = -1
    /\ insertionLine = -1
    /\ genCodeRuns = 0
    /\ reported = {}

NextCollaborators ==
    \/ UpdateGenCodeBat
    \/ UpdateSystemParaC
    \/ UpdateCustomH
    \/ HandleBinFileAndExecuteGenCode
    \/ SaveAll

\* the step that follows each step after the edit
StepAfter(step) ==
    CASE step = "updateGenCodeBat" -> "updateSystemParaC"
      [] step = "updateSystemParaC" -> "updateCustomH"
      [] step = "updateCustomH" -> "handleBinFileAndExecuteGenCode"
      [] step = "handleBinFileAndExecuteGenCode" -> "saveAll"
      [] step = "saveAll" -> "done"
      [] OTHER -> "done"

\* the run moves on from a step to the one after it
Advance == pc \in AfterEdit \ {"done"} /\ pc' = StepAfter(pc)

SpecCollaborators ==
    InitCollaborators /\ [][NextCollaborators]_vars /\ WF_pc(Advance)

\* what the collaborator steps report when they caught a failure
Failures == {"GenCodeFailed", "SystemParaFailed", "CustomHFailed", "BinFailed"}

\* C22: a step after the edit, failed or not, is followed by the next step
\* and leaves the primary document, which holds the block of the new name,
\* as it is; a run that has applied its edit comes to the end of saveAll
CollaboratorFailureIsCaught ==
    /\ [][ (pc \in AfterEdit)
           => (pc' = StepAfter(pc) /\ document' = document /\ NewBlocks # {}) ]_vars
    /\ (pc \in AfterEdit ~> pc = "done")

\* a run came to its end although all four collaborator steps failed
AllCollaboratorsFailed ==
    /\ pc = "done"
    /\ Failures \subseteq reported
    /\ NewBlocks # {}

\* the step for a file that is missing changes no file and reports only
\* that the file is missing
SkipsMissing(step, missing, report) ==
    (pc = step /\ missing)
    => (UNCHANGED files /\ reported' = reported \cup {report} /\ pc' = StepAfter(step))

\* C23: the step of a collaborator file that does not exist changes no file
\* and reports no failure, the run goes on through the other steps, and no
\* later step fails for want of the file: with what the step itself does
\* succeeding, the .bin step of a run without GenCode.bat reports no failure
\* and leaves no .bin file behind
MissingFileIsPassedOver ==
    [][ /\ SkipsMissing("updateGenCodeBat", genCodeBat = NoFile, "GenCodeMissing")
        /\ SkipsMissing("updateSystemParaC", systemParaC = NoDocument, "SystemParaMissing")
        /\ SkipsMissing("updateCustomH", customH = NoDocument, "CustomHMissing")
        /\ (pc = "handleBinFileAndExecuteGenCode" /\ genCodeBat = NoFile)
            => LET r == handleBinFileAndExecuteGenCode(binFiles, newEepromMacro,
                                                       genCodeBat, "ok")
               IN  r.report # "BinFailed" /\ (binFiles # {} => r.bins = {}) ]_vars

\* the same without the .bin step: what the steps of the missing files do
MissingFileStepIsSkipped ==
    [][ /\ SkipsMissing("updateGenCodeBat", genCodeBat = NoFile, "GenCodeMissing")
        /\ SkipsMissing("updateSystemParaC", systemParaC = NoDocument, "SystemParaMissing")
        /\ SkipsMissing("updateCustomH", customH = NoDocument, "CustomHMissing") ]_vars

(***************************************************************************)
(* updateCustomH on reference blocks of differently indented define lines  *)
(***************************************************************************)
MaxAlignLines == 3

L_SMALL == <<" "," ","#","d","e","f","i","n","e"," ","A"," ","1">>
L_WIDE ==
    <<"#","d","e","f","i","n","e"," ","A","_","V","E","R","Y","_","L","O","N","G","_",
      "N","A","M","E"," "," ","1">>

\* the lines between the header and the closing #endif: define lines behind
\* a tab, behind spaces and with a long name, an empty line, a nested
\* conditional, #endif
AlignLines == { L_MOTOR1, L_SMALL, L_WIDE, <<>>, L_NESTED_IF, S_endif }

\* the header of the reference block, plain and behind a tab, and the
\* header of a block whose name only starts like the reference name
AlignHeaders ==
    { <<"#","i","f"," ">> \o N_REF,
      <<"\t","#","i","f"," ">> \o N_REF,
      <<"#","i","f"," ">> \o N_REF \o <<"_","B">> }

AlignDocuments ==
    { [lines |-> <<h>> \o d \o << S_endif >>, eol |-> LF] :
        h \in AlignHeaders,
        d \in UNION { [1..n -> AlignLines] : n \in 0..MaxAlignLines } }

\* both types, none, the compressor alone and typed with blanks around it,
\* the fan alone after a compressor of blanks
AlignMotorChoices ==
    MotorChoices
    \cup { [motor1 |-> <<" ">> \o M_COMP \o <<" ">>, motor2 |-> Undefined],
           [motor1 |-> <<" ">>, motor2 |-> M_FAN] }

InitMotorArm ==
    /\ FanIdle
    /\ pc = "updateCustomH"
    /\ AfterPrimaryEdit
    /\ customH \in AlignDocuments
    /\ motorTypes \in AlignMotorChoices
    /\ systemParaC = NoDocument
    /\ binFiles = {}
    /\ genCodeRuns = 0
    /\ afterLine = -1
    /\ insertionLine = -1
    /\ reported = {"GenCodeMissing", "SystemParaMissing"}

NextMotorArm == UpdateCustomH

SpecMotorArm == InitMotorArm /\ [][NextMotorArm]_vars

\* a motor type was supplied: it is there and not blank
Supplied(motor) == motor # Undefined /\ Trim(motor) # <<>>

\* the lines that came into Custom.h with the step: lines' is lines with
\* these put in at one place
InsertedLines(before, after) ==
    LET n == Len(after) - Len(before)
        at == { p \in 0..Len(before) :
                  /\ SubSeq(after, 1, p) = SubSeq(before, 1, p)
                  /\ SubSeq(after, p + n + 1, Len(after)) = SubSeq(before, p + 1, Len(before)) }
    IN  IF n <= 0 \/ at = {} THEN <<>>
        ELSE SubSeq(after, (CHOOSE p \in at : TRUE) + 1, (CHOOSE p \in at : TRUE) + n)

\* a line that defines the macro as the value, blanks between them
DefinesMotor(line, macro, motor) ==
    \E n \in 1..Len(line) : Trim(line) = macro \o Spaces(n) \o Trim(motor)

\* the names of the blocks of Custom.h
CustomHNames ==
    LET ms == parseExistingModels(GetText(customH))
    IN  { ms[k].name : k \in 1..Len(ms) }

\* C24: updateCustomH changes Custom.h only when a motor type was supplied
\* and Custom.h has a block of exactly the reference name; what it puts in
\* is the line #elif <new name>, then a #define MOTOR1_TYPE line when the
\* first type was supplied, then a #define MOTOR2_TYPE line when the second
\* was, and nothing else
MotorArmAsStated ==
    [][ (pc = "updateCustomH" /\ customH' # customH)
        => LET new == InsertedLines(customH.lines, customH'.lines)
               one == Supplied(motorTypes.motor1)
               two == Supplied(motorTypes.motor2)
           IN  /\ one \/ two
               /\ referenceModel.name \in CustomHNames
               /\ Len(new) = 1 + (IF one THEN 1 ELSE 0) + (IF two THEN 1 ELSE 0)
               /\ Trim(new[1]) = S_elif \o <<" ">> \o newModelName
               /\ one => DefinesMotor(new[2], S_MOTOR1_TYPE, motorTypes.motor1)
               /\ two => DefinesMotor(new[Len(new)], S_MOTOR2_TYPE, motorTypes.motor2) ]_vars

\* Custom.h got an arm of the fan line alone, the compressor typed as a
\* blank
ArmOfFanAlone ==
    /\ "CustomHUpdated" \in reported
    /\ motorTypes.motor1 = <<" ">>
    /\ Supplied(motorTypes.motor2)
    /\ newModelName \in CustomHNames

\* the block of the reference name in Custom.h, NoModel when there is none
ReferenceInCustomH ==
    FindModelNamed(parseExistingModels(GetText(customH)), referenceModel.name)

\* the column the contract states for a block: the widest define prefix of
\* the lines of the block, and at least the width of the two motor
\* prototypes behind the indentation of the first define line (behind the
\* header's indentation and four blanks when the block has no define line)
StatedValueColumn(doc, ref) ==
    LET at == { i \in (ref.startLine + 1)..ref.endLine :
                  MatchDefinePrefix(doc.lines[i + 1]) > 0 }
        widths == { getVisualLength(SubSeq(doc.lines[i + 1], 1,
                                           MatchDefinePrefix(doc.lines[i + 1]))) : i \in at }
        indent == IF at = {}
                  THEN LeadingWhitespace(doc.lines[ref.startLine + 1]) \o Spaces(4)
                  ELSE LeadingWhitespace(doc.lines[(CHOOSE i \in at : \A j \in at : i <= j) + 1])
        all == widths \cup { getVisualLength(indent \o S_MOTOR1_TYPE \o <<" ">>),
                             getVisualLength(indent \o S_MOTOR2_TYPE \o <<" ">>) }
    IN  CHOOSE w \in all : \A v \in all : v <= w

\* in each motor line the step put in, the value starts at the column
ValuesStartAt(column) ==
    LET new == InsertedLines(customH.lines, customH'.lines)
    IN  \A k \in 2..Len(new) :
            \E motor \in {motorTypes.motor1, motorTypes.motor2} :
                /\ Supplied(motor)
                /\ Len(new[k]) > Len(Trim(motor))
                /\ SubSeq(new[k], Len(new[k]) - Len(Trim(motor)) + 1, Len(new[k])) = Trim(motor)
                /\ getVisualLength(SubSeq(new[k], 1, Len(new[k]) - Len(Trim(motor)))) = column

\* C25: for the reference block of Custom.h, calculateAlignment gives as
\* valueColumn the widest visual length (a tab as 4 columns) of the define
\* prefixes of the block's lines, not less than that of the two motor
\* prototypes, and in every motor line updateCustomH puts in the value
\* starts at that visual column
AlignmentAsStated ==
    [][ (pc = "updateCustomH" /\ customH # NoDocument /\ ReferenceInCustomH # NoModel)
        => \A column \in { calculateAlignment(customH, ReferenceInCustomH).valueColumn } :
              /\ column = StatedValueColumn(customH, ReferenceInCustomH)
              /\ ValuesStartAt(column) ]_vars

\* the second half alone: the values of the motor lines start at the
\* column calculateAlignment gave, so two lines are aligned with each other
ValuesStartAtValueColumn ==
    [][ (pc = "updateCustomH" /\ customH # NoDocument /\ ReferenceInCustomH # NoModel)
        => \A column \in { calculateAlignment(customH, ReferenceInCustomH).valueColumn } :
              ValuesStartAt(column) ]_vars

\* the first half on blocks that no nested conditional follows
ColumnOfPlainBlock ==
    (/\ pc = "updateCustomH" /\ customH # NoDocument /\ ReferenceInCustomH # NoModel
     /\ \A i \in 1..Len(customH.lines) : customH.lines[i] # L_NESTED_IF)
    => calculateAlignment(customH, ReferenceInCustomH).valueColumn
          = StatedValueColumn(customH, ReferenceInCustomH)

\* C26: when handleBinFileAndExecuteGenCode has found a .bin file, no .bin
\* file is left when it ends, whether the run of GenCode.bat succeeded or
\* not
NoBinFileRemains ==
    [][ (pc = "handleBinFileAndExecuteGenCode" /\ binFiles # {}) => binFiles' = {} ]_vars

\* the same for the runs in which rename and the script did not fail
NoBinFileRemainsAfterSuccess ==
    [][ (/\ pc = "handleBinFileAndExecuteGenCode"
         /\ binFiles # {}
         /\ "BinFailed" \notin reported')
        => binFiles' = {} ]_vars

NoTwoBlocksOfOneName ==
    pc \in AfterEdit =>
        LET ms == parseExistingModels(GetText(document))
        IN  \A i, j \in 1..Len(ms) : i # j => ms[i].name # ms[j].name

\* the same for the runs in which the name entered is not yet in the file
NewNameGivesNoSecondBlock ==
    (pc \in AfterEdit /\ \A k \in 1..Len(existingModels) : existingModels[k].name # newModelName)
    => LET ms == parseExistingModels(GetText(document))
       IN  \A i, j \in 1..Len(ms) : i # j => ms[i].name # ms[j].name

S_include == <<"#","i","n","c","l","u","d","e"," ","\"","C","u","s","t","o","m","e","r",
               "C","o","n","f","i","g","/">>

\* the text holds the macro as a complete identifier: no character of an
\* identifier stands before or behind it
HasIdentifier(text, macro) ==
    \E i \in 1..Len(text) :
        /\ OccursAt(text, macro, i)
        /\ i = 1 \/ ~IsWordChar(text[i - 1])
        /\ i + Len(macro) > Len(text) \/ ~IsWordChar(text[i + Len(macro)])

\* C29: when SystemPara.c does not hold the new macro as a complete
\* identifier and the step did not fail (an insertion point was found and
\* the edit was applied), updateSystemParaC has put the new macro and an
\* #include of CustomerConfig/ into the file
InsertedUnlessIdentifierPresent ==
    [][ (/\ pc = "updateSystemParaC"
         /\ systemParaC # NoDocument
         /\ ~HasIdentifier(GetText(systemParaC), newEepromMacro)
         /\ "SystemParaFailed" \notin reported')
        => /\ "SystemParaUpdated" \in reported'
           /\ HasIdentifier(GetText(systemParaC'), newEepromMacro)
           /\ Includes(GetText(systemParaC'), S_include) ]_vars

\* the same for a file in which the characters of the macro do not occur
InsertedUnlessTextPresent ==
    [][ (/\ pc = "updateSystemParaC"
         /\ systemParaC # NoDocument
         /\ ~Includes(GetText(systemParaC), newEepromMacro)
         /\ "SystemParaFailed" \notin reported')
        => /\ "SystemParaUpdated" \in reported'
           /\ HasIdentifier(GetText(systemParaC'), newEepromMacro)
           /\ Includes(GetText(systemParaC'), S_include) ]_vars

(***************************************************************************)
(* FanCreator: createNewFan and the four files it works on                 *)
(***************************************************************************)
MaxFanLines == 3

DigitSeq == <<"0","1","2","3","4","5","6","7","8","9">>

\* parseInt of a sequence of digits
RECURSIVE ParseDigits(_)
ParseDigits(ds) ==
    IF ds = <<>> THEN 0
    ELSE 10 * ParseDigits(SubSeq(ds, 1, Len(ds) - 1))
         + (CHOOSE n \in 0..9 : DigitSeq[n + 1] = ds[Len(ds)])

\* a number in a template literal
RECURSIVE ToDigits(_)
ToDigits(n) ==
    IF n < 10 THEN << DigitSeq[n + 1] >>
    ELSE ToDigits(n \div 10) \o << DigitSeq[(n % 10) + 1] >>

S_MOTOR2_ == <<"M","O","T","O","R","2","_">>

\* /#define\s+(MOTOR2_[A-Z0-9_]+)\s+([0-9]+)/ matches the line from index i
FanDefineAt(line, i) ==
    /\ OccursAt(line, S_define, i)
    /\ SkipWhitespace(line, i + 7) > i + 7
    /\ OccursAt(line, S_MOTOR2_, SkipWhitespace(line, i + 7))
    /\ SkipNameChars(line, SkipWhitespace(line, i + 7) + 7) > SkipWhitespace(line, i + 7) + 7
    /\ SkipWhitespace(line, SkipNameChars(line, SkipWhitespace(line, i + 7) + 7))
          > SkipNameChars(line, SkipWhitespace(line, i + 7) + 7)
    /\ SkipDigits(line, SkipWhitespace(line, SkipNameChars(line, SkipWhitespace(line, i + 7) + 7)))
          > SkipWhitespace(line, SkipNameChars(line, SkipWhitespace(line, i + 7) + 7))

\* the fan a line defines: match[1] and parseInt(match[2]) of the first match
FanOfLine(line, at) ==
    LET i == CHOOSE k \in 1..Len(line) :
                 FanDefineAt(line, k) /\ \A j \in 1..(k - 1) : ~FanDefineAt(line, j)
        b == SkipWhitespace(line, i + 7)
        c == SkipNameChars(line, b + 7)
        d == SkipWhitespace(line, c)
    IN  [name |-> SubSeq(line, b, c - 1),
         value |-> ParseDigits(SubSeq(line, d, SkipDigits(line, d) - 1)),
         line |-> at]

\* getFanModels: the fans defined line by line, up to the first definition
\* that stands more than 10 lines after the one before
RECURSIVE FanModelsFrom(_, _, _)
FanModelsFrom(lines, i, lastLine) ==
    IF i >= Len(lines) THEN <<>>
    ELSE IF \E k \in 1..Len(lines[i + 1]) : FanDefineAt(lines[i + 1], k)
    THEN IF lastLine # -1 /\ i - lastLine > 10 THEN <<>>
         ELSE << FanOfLine(lines[i + 1], i) >> \o FanModelsFrom(lines, i + 1, i)
    ELSE FanModelsFrom(lines, i + 1, lastLine)

getFanModels(doc) == FanModelsFrom(doc.lines, 0, -1)

\* name.replace('MOTOR2_', '')
WithoutMotor2(macro) ==
    LET i == IndexOf(macro, S_MOTOR2_)
    IN  IF i = 0 THEN macro ELSE SubSeq(macro, 1, i - 1) \o SubSeq(macro, i + 7, Len(macro))

\* newFanName.replace(/_DEBUG$/, '')
WithoutDebug(fan) == StripSuffix(fan, <<"_","D","E","B","U","G">>)

S_FocFans == <<"#","i","n","c","l","u","d","e">>
S_FocFansDir == <<"\"","F","o","c","F","a","n","s","/">>

\* match[1] of /#include\s*"FocFans\/([^"]+)"/ in the line, <<>> for no match
IncludedFanHeader(line) ==
    LET at == { i \in 1..Len(line) :
                  /\ OccursAt(line, S_FocFans, i)
                  /\ OccursAt(line, S_FocFansDir, SkipWhitespace(line, i + 8))
                  /\ \E q \in (SkipWhitespace(line, i + 8) + 10)..Len(line) :
                        /\ line[q] = "\""
                        /\ \A k \in (SkipWhitespace(line, i + 8) + 9)..(q - 1) : line[k] # "\"" }
        i == CHOOSE k \in at : \A j \in at : k <= j
        from == SkipWhitespace(line, i + 8) + 9
        to == CHOOSE q \in from..Len(line) :
                  line[q] = "\"" /\ \A k \in from..(q - 1) : line[k] # "\""
    IN  IF at = {} THEN <<>> ELSE SubSeq(line, from, to - 1)

\* findHeaderPathForFanMacro on the lines of customerInterface2.c from line
\* i: the header included in the line after a line that holds the macro; it
\* throws when there is none, and when the macro stands in the last line
RECURSIVE HeaderPathFrom(_, _, _)
HeaderPathFrom(lines, fanMacroName, i) ==
    IF i >= Len(lines) THEN [throws |-> TRUE, file |-> <<>>]
    ELSE IF ~Includes(lines[i + 1], fanMacroName)
    THEN HeaderPathFrom(lines, fanMacroName, i + 1)
    ELSE IF i + 1 >= Len(lines) THEN [throws |-> TRUE, file |-> <<>>]
    ELSE IF IncludedFanHeader(lines[i + 2]) # <<>>
    THEN [throws |-> FALSE, file |-> IncludedFanHeader(lines[i + 2])]
    ELSE HeaderPathFrom(lines, fanMacroName, i + 1)

findHeaderPathForFanMacro(interface, fanMacroName) ==
    IF interface = NoDocument THEN [throws |-> TRUE, file |-> <<>>]
    ELSE HeaderPathFrom(interface.lines, fanMacroName, 0)

\* createNewFanHeader: the header of the reference fan is looked up and
\* read, and the new header written beside it; the contents of the header
\* are left out
createNewFanHeader(headers, interface, referenceFanName, fan, written) ==
    LET ref == findHeaderPathForFanMacro(interface, S_MOTOR2_ \o referenceFanName)
        newFanFileName == WithoutDebug(fan) \o <<".","h">>
    IN  IF ref.throws \/ ref.file \notin headers \/ ~written
        THEN [throws |-> TRUE, headers |-> headers]
        ELSE [throws |-> FALSE, headers |-> headers \cup {newFanFileName}]

\* the tokens of a pattern whose parts are separated by \s*: the index after
\* the last token, 0 for no match
RECURSIVE MatchTokens(_, _, _)
MatchTokens(line, i, tokens) ==
    IF tokens = <<>> THEN i
    ELSE IF OccursAt(line, tokens[1], SkipWhitespace(line, i))
    THEN MatchTokens(line, SkipWhitespace(line, i) + Len(tokens[1]), Tail(tokens))
    ELSE 0

\* /^\s*#if\s*\(\s*MODEL_TYPE\s*==\s*MODEL_YUETU_AIRCONDITION\s*\)/.test(line)
IsAnchor(line) ==
    MatchTokens(line, 1, << <<"#","i","f">>, <<"(">>, <<"M","O","D","E","L","_","T","Y","P","E">>, <<"=","=">>,
                            <<"M","O","D","E","L","_","Y","U","E","T","U","_","A","I","R","C","O","N","D","I",
      "T","I","O","N">>, <<")">> >>) # 0

\* /^\s*#define\s+MOTOR2_/.test(line)
IsFanDefine(line) ==
    LET i == SkipWhitespace(line, 1)
    IN  /\ OccursAt(line, S_define, i)
        /\ SkipWhitespace(line, i + 7) > i + 7
        /\ OccursAt(line, S_MOTOR2_, SkipWhitespace(line, i + 7))

\* the column of the value in the line of the last fan: the index of the
\* digits of the first match of /\s+([0-9]+)/, 48 without a match
FanValueColumn(line) ==
    LET at == { p \in 1..Len(line) :
                  /\ IsWhitespace(line[p])
                  /\ SkipDigits(line, SkipWhitespace(line, p)) > SkipWhitespace(line, p) }
    IN  IF at = {} THEN 48
        ELSE SkipWhitespace(line, CHOOSE p \in at : \A q \in at : p <= q) - 1

\* Math.max(...fanModels.map(f => f.value))
MaxFanValue(fans) ==
    CHOOSE v \in { fans[k].value : k \in 1..Len(fans) } :
        \A k \in 1..Len(fans) : fans[k].value <= v

\* FanCreator.updateCustomH: the define of the new fan replaces what stands
\* between the last fan definition above the anchor and the anchor; the
\* result of applyEdit is not looked at
fanUpdateCustomH(doc, fan, applied) ==
    LET fans == getFanModels(doc)
        anchors == { i \in 0..(Len(doc.lines) - 1) : IsAnchor(doc.lines[i + 1]) }
        anchorIndex == CHOOSE i \in anchors : \A j \in anchors : i <= j
        above == { i \in 0..(anchorIndex - 1) : IsFanDefine(doc.lines[i + 1]) }
        lastFanInBlockIndex == CHOOSE i \in above : \A j \in above : j <= i
        valueColumn == FanValueColumn(doc.lines[lastFanInBlockIndex + 1])
        definePart == S_define \o <<" ">> \o S_MOTOR2_ \o ToUpperCase(fan)
        newLineContent == definePart \o Spaces(Max2(1, valueColumn - Len(definePart)))
                          \o ToDigits(MaxFanValue(fans) + 1)
    IN  IF doc = NoDocument \/ Len(fans) = 0 \/ anchors = {} THEN [throws |-> TRUE, doc |-> doc]
        ELSE IF above = {} THEN [throws |-> TRUE, doc |-> doc]
        ELSE IF ~applied THEN [throws |-> FALSE, doc |-> doc]
        ELSE [throws |-> FALSE,
              doc |-> [doc EXCEPT !.lines =
                          SubSeq(doc.lines, 1, lastFanInBlockIndex + 1)
                          \o << newLineContent, <<>> >>
                          \o SubSeq(doc.lines, anchorIndex + 1, Len(doc.lines))]]

\* what updateCustomerInterface and updateFanNameTable share: the two lines
\* go in before the #else line that stands right before the first line that
\* holds the #error text
InsertBeforeElse(doc, errorLineText, first, second, applied) ==
    LET at == { i \in 0..(Len(doc.lines) - 1) : Includes(doc.lines[i + 1], errorLineText) }
        errorLineIndex == CHOOSE i \in at : \A j \in at : i <= j
        elseIndex == errorLineIndex - 1
    IN  IF doc = NoDocument \/ at = {} THEN [throws |-> TRUE, doc |-> doc]
        ELSE IF elseIndex < 0 \/ ~StartsWith(Trim(doc.lines[elseIndex + 1]), S_else)
        THEN [throws |-> TRUE, doc |-> doc]
        ELSE IF ~applied THEN [throws |-> FALSE, doc |-> doc]
        ELSE [throws |-> FALSE,
              doc |-> [doc EXCEPT !.lines = SubSeq(doc.lines, 1, elseIndex) \o << first, second >>
                                            \o SubSeq(doc.lines, elseIndex + 1, Len(doc.lines))]]

\* #elif (MOTOR2_TYPE == MOTOR2_<NAME>)
FanArm(fan) == <<"#","e","l","i","f"," ","(","M","O","T","O","R","2","_","T","Y","P","E"," ","=",
      "="," ","M","O","T","O","R","2","_">> \o ToUpperCase(fan) \o <<")">>

updateCustomerInterface(doc, fan, applied) ==
    InsertBeforeElse(doc, <<"#","e","r","r","o","r"," ","\"","N","O"," ","M","O","T","O","R","_","T","Y","P",
      "E","\"">>, FanArm(fan),
                     <<"#","i","n","c","l","u","d","e"," ","\"","F","o","c","F","a","n","s","/">> \o WithoutDebug(fan) \o <<".","h","\"">>, applied)

updateFanNameTable(doc, fan, applied) ==
    InsertBeforeElse(doc, <<"#","e","r","r","o","r"," ","\"","B","A","D"," ","F","A","N"," ","N","A","M","E",
      " ","D","E","F","I","N","E","\"">>, FanArm(fan),
                     <<"#","d","e","f","i","n","e"," ","F","A","N","_","N","A","M","E"," ","\"">> \o WithoutDebug(fan) \o <<"\"">>, applied)

(***************************************************************************)
(* One run of createNewFan on Custom.h                                     *)
(***************************************************************************)
F_A == <<"#","d","e","f","i","n","e"," ","M","O","T","O","R","2","_","F","A","N","_","A",
      " ","1">>
F_B == <<"#","d","e","f","i","n","e"," ","M","O","T","O","R","2","_","F","A","N","_","B",
      " "," "," "," "," ","2">>
L_ANCHOR == <<"#","i","f"," ","(","M","O","D","E","L","_","T","Y","P","E"," ","=","="," ","M",
      "O","D","E","L","_","Y","U","E","T","U","_","A","I","R","C","O","N","D","I",
      "T","I","O","N",")">>

FanLines == { F_A, F_B, L_ANCHOR, <<>> }

FanDocuments ==
    { [lines |-> d, eol |-> LF] :
        d \in UNION { [1..n -> FanLines] : n \in 1..MaxFanLines } }

I_FAN_A == <<"#","i","f"," ","(","M","O","T","O","R","2","_","T","Y","P","E"," ","=","="," ",
      "M","O","T","O","R","2","_","F","A","N","_","A",")">>

\* customerInterface2.c: with the arm of FAN_A and the #else and #error
\* lines, without the #else and #error lines, and missing
InterfaceDocuments ==
    { [lines |-> << I_FAN_A, <<"#","i","n","c","l","u","d","e"," ","\"","F","o","c","F","a","n","s","/","F","A",
      "N","_","A",".","h","\"">>, S_else,
                    <<"#","e","r","r","o","r"," ","\"","N","O"," ","M","O","T","O","R","_","T","Y","P",
      "E","\"">>, S_endif >>, eol |-> LF],
      [lines |-> << I_FAN_A, <<"#","i","n","c","l","u","d","e"," ","\"","F","o","c","F","a","n","s","/","F","A",
      "N","_","A",".","h","\"">>, S_endif >>, eol |-> LF],
      NoDocument }

\* focfanName_Table.h: with the #else line before the #error line, and
\* without it
TableDocuments ==
    { [lines |-> << I_FAN_A, <<"#","d","e","f","i","n","e"," ","F","A","N","_","N","A","M","E"," ","\"","F","A",
      "N","_","A","\"">>, S_else,
                    <<"#","e","r","r","o","r"," ","\"","B","A","D"," ","F","A","N"," ","N","A","M","E",
      " ","D","E","F","I","N","E","\"">>, S_endif >>, eol |-> LF],
      [lines |-> << I_FAN_A, <<"#","d","e","f","i","n","e"," ","F","A","N","_","N","A","M","E"," ","\"","F","A",
      "N","_","A","\"">>,
                    <<"#","e","r","r","o","r"," ","\"","B","A","D"," ","F","A","N"," ","N","A","M","E",
      " ","D","E","F","I","N","E","\"">>, S_endif >>, eol |-> LF] }

H_FAN_A == <<"F","A","N","_","A",".","h">>
FanHeaderSets == { {H_FAN_A}, {} }

\* the prompt cancelled, a new name, a new name of a debug build, and the
\* name of a fan that Custom.h may hold already
FanNames == { Undefined, <<"F","A","N","_","C">>, <<"F","A","N","_","C","_","D","E","B","U","G">>, <<"F","A","N","_","A">> }

InitFan ==
    /\ pc = "selectReferenceFan"
    /\ customH \in FanDocuments
    /\ customerInterface \in InterfaceDocuments
    /\ fanNameTable \in TableDocuments
    /\ fanHeaders \in FanHeaderSets
    /\ referenceFan = NoFan
    /\ newFanName = <<>>
    /\ ParserIdle
    /\ NamingIdle
    /\ WorkflowIdle
    /\ afterLine = -1
    /\ insertionLine = -1
    /\ systemParaC = NoDocument
    /\ motorTypes = [motor1 |-> Undefined, motor2 |-> Undefined]
    /\ binFiles = {}
    /\ genCodeRuns = 0
    /\ reported = {}

\* what a step of createNewFan leaves alone
ModelRunIdle ==
    UNCHANGED <<parserVars, namingVars, workflowVars, afterLine, insertionLine, systemParaC,
                motorTypes, binFiles, genCodeRuns, reported>>

\* selectReferenceFan: without a fan in Custom.h the command ends with an
\* error message; a fan is picked or the pick is cancelled (pick 0)
SelectReferenceFan ==
    /\ pc = "selectReferenceFan"
    /\ LET fans == getFanModels(customH)
       IN  IF Len(fans) = 0
           THEN pc' = "fanRejected" /\ UNCHANGED referenceFan
           ELSE \E pick \in 0..Len(fans) :
                   IF pick = 0
                   THEN pc' = "fanCancelled" /\ UNCHANGED referenceFan
                   ELSE /\ referenceFan' = [fans[pick] EXCEPT !.name = WithoutMotor2(fans[pick].name)]
                        /\ pc' = "inputNewFanName"
    /\ UNCHANGED <<newFanName, fanHeaders, customerInterface, fanNameTable, customH>>
    /\ ModelRunIdle

\* inputNewFanName and the test for a fan of that name in Custom.h
InputNewFanName ==
    /\ pc = "inputNewFanName"
    /\ \E value \in FanNames :
          IF IsFalsy(value)
          THEN pc' = "fanCancelled" /\ UNCHANGED newFanName
          ELSE /\ newFanName' = value
               /\ pc' = IF \E k \in 1..Len(getFanModels(customH)) :
                              getFanModels(customH)[k].name = S_MOTOR2_ \o ToUpperCase(value)
                        THEN "fanRejected"
                        ELSE "inputFanParameter"
    /\ UNCHANGED <<referenceFan, fanHeaders, customerInterface, fanNameTable, customH>>
    /\ ModelRunIdle

\* the five prompts for Poles, Rs, Ld, Lq and Ke: a dismissed one ends the
\* command
InputFanParameter ==
    /\ pc = "inputFanParameter"
    /\ \E dismissed \in BOOLEAN :
          pc' = IF dismissed THEN "fanCancelled" ELSE "createNewFanHeader"
    /\ UNCHANGED <<fanVars, customH>>
    /\ ModelRunIdle

\* updateFiles, step 1
CreateNewFanHeader ==
    /\ pc = "createNewFanHeader"
    /\ \E written \in BOOLEAN :
          LET r == createNewFanHeader(fanHeaders, customerInterface, referenceFan.name,
                                      newFanName, written)
          IN  /\ fanHeaders' = r.headers
              /\ pc' = IF r.throws THEN "fanFailed" ELSE "fanUpdateCustomH"
    /\ UNCHANGED <<referenceFan, newFanName, customerInterface, fanNameTable, customH>>
    /\ ModelRunIdle

\* updateFiles, step 2
FanUpdateCustomH ==
    /\ pc = "fanUpdateCustomH"
    /\ \E applied \in BOOLEAN :
          LET r == fanUpdateCustomH(customH, newFanName, applied)
          IN  /\ customH' = r.doc
              /\ pc' = IF r.throws THEN "fanFailed" ELSE "updateCustomerInterface"
    /\ UNCHANGED fanVars
    /\ ModelRunIdle

\* updateFiles, step 3
UpdateCustomerInterface ==
    /\ pc = "updateCustomerInterface"
    /\ \E applied \in BOOLEAN :
          LET r == updateCustomerInterface(customerInterface, newFanName, applied)
          IN  /\ customerInterface' = r.doc
              /\ pc' = IF r.throws THEN "fanFailed" ELSE "updateFanNameTable"
    /\ UNCHANGED <<referenceFan, newFanName, fanHeaders, fanNameTable, customH>>
    /\ ModelRunIdle

\* updateFiles, step 4, and saveAll
UpdateFanNameTable ==
    /\ pc = "updateFanNameTable"
    /\ \E applied \in BOOLEAN :
          LET r == updateFanNameTable(fanNameTable, newFanName, applied)
          IN  /\ fanNameTable' = r.doc
              /\ pc' = IF r.throws THEN "fanFailed" ELSE "fanDone"
    /\ UNCHANGED <<referenceFan, newFanName, fanHeaders, customerInterface, customH>>
    /\ ModelRunIdle

NextFan ==
    \/ SelectReferenceFan
    \/ InputNewFanName
    \/ InputFanParameter
    \/ CreateNewFanHeader
    \/ FanUpdateCustomH
    \/ UpdateCustomerInterface
    \/ UpdateFanNameTable

SpecFan == InitFan /\ [][NextFan]_vars

\* the four artifacts of the new fan
HasFanHeader == WithoutDebug(newFanName) \o <<".","h">> \in fanHeaders
HasFanDefine ==
    \E i \in 1..Len(customH.lines) :
        StartsWith(customH.lines[i],
                   S_define \o <<" ">> \o S_MOTOR2_ \o ToUpperCase(newFanName) \o <<" ">>)
HasInterfaceArm ==
    \E i \in 1..Len(customerInterface.lines) : customerInterface.lines[i] = FanArm(newFanName)
HasTableArm ==
    \E i \in 1..Len(fanNameTable.lines) : fanNameTable.lines[i] = FanArm(newFanName)

\* the fans that the files of a run may hold before the run
FansBefore == { <<"F","A","N","_","A">>, <<"F","A","N","_","B">> }

\* the command has ended
FanEnded == pc \in {"fanDone", "fanFailed", "fanCancelled", "fanRejected"}

\* C30: when createNewFan has ended for a fan that no file held before, the
\* header of the new fan, its define in Custom.h, its arm in
\* customerInterface2.c and its arm in focfanName_Table.h are all there, or
\* none of them is
FanAllOrNothing ==
    (FanEnded /\ newFanName # <<>> /\ newFanName \notin FansBefore)
    => \/ HasFanHeader /\ HasFanDefine /\ HasInterfaceArm /\ HasTableArm
       \/ ~HasFanHeader /\ ~HasFanDefine /\ ~HasInterfaceArm /\ ~HasTableArm

\* after a cancelled prompt and after a name that Custom.h holds already no
\* file has changed
FanCancelledTouchesNothing ==
    [][ pc' \in {"fanCancelled", "fanRejected"}
        => UNCHANGED <<fanHeaders, customH, customerInterface, fanNameTable>> ]_vars
====
